---------------------------- MODULE Spec2Model ----------------------------
(***************************************************************************)
(* Mesh Tile Format v1 (MTI1): the codec of KotobaMedia/mesh-data-tile.    *)
(*                                                                         *)
(* Values follow the TypeScript source.  A bigint that the code keeps in   *)
(* 64 bits (tile ids, payload lengths) is a vector of 64 bits, bit 0 the   *)
(* least significant.  A byte is a number in 0..255 and a byte buffer is a *)
(* sequence of bytes; buffer offset k of the source is index k + 1 here.   *)
(* A result that the source returns or throws is a record with ok = TRUE   *)
(* and the value, or ok = FALSE and the error code.                        *)
(***************************************************************************)
EXTENDS Integers, Sequences, FiniteSets, TLC

VARIABLES
    xyzPc,      \* position of the caller of the XYZ tile-id helpers
    xyzTile,    \* the {zoom, x, y} given to encodeXyzTileId
    xyzGiven,   \* the tile id given to decodeXyzTileId / assertValidXyzTileId
    xyzEnc,     \* what encodeXyzTileId returned or threw
    xyzDec,     \* what decodeXyzTileId returned or threw
    xyzAssert,  \* what assertValidXyzTileId returned or threw
    hasStreams, \* whether the runtime has CompressionStream and DecompressionStream
    input,      \* the TileEncodeInput given to encodeTile
    encPc,      \* position of encodeTile: "idle", "awaiting" (at its await), "done"
    encLocals,  \* the locals of encodeTile that live across its await
    encResult,  \* what encodeTile returned or threw
    file,       \* the buffer given to inspectTile and decodeTile
    origin,     \* where the buffer comes from, and what was changed in it
    insResult,  \* what inspectTile returned or threw
    decStage,   \* position of decodeTile
    decLocals,  \* the locals of decodeTile
    decResult,  \* what decodeTile returned or threw
    csvGiven,   \* the values and dimensions given to formatDecodedCsv
    csvResult,  \* what formatDecodedCsv returned or threw
    calls,      \* the encodeTile and decodeTile calls that run side by side
    lruCache,   \* a Map that getFromLru and setToLru are applied to
    lruMax,     \* the maxEntries that the Map is configured with
    lruUsed,    \* for every key, when it was last looked up or inserted
    lruLast,    \* the last call of getFromLru or setToLru, and the Map before it
    cacheConfig,            \* options.cache of the MapLibre protocol handler
    requests,               \* the tile requests made of the handler
    vectorTileCache,        \* request URL -> vector tile bytes
    vectorTileInFlight,     \* request URL -> the request whose load is awaited
    meshFeaturesCache,      \* mesh tile URL -> features
    meshFeaturesInFlight,   \* mesh tile URL -> the fetch that is awaited
    fetches                 \* the fetchTile calls made so far

xyzVars == <<xyzPc, xyzTile, xyzGiven, xyzEnc, xyzDec, xyzAssert>>
encVars == <<input, encPc, encLocals, encResult>>
decVars == <<insResult, decStage, decLocals, decResult>>
codecVars == <<hasStreams, input, encPc, encLocals, encResult, file, origin,
               insResult, decStage, decLocals, decResult>>
apiVars == <<csvGiven, csvResult>>
\* the state outside the codec and the tile-id helpers
callVars == <<calls>>
lruVars == <<lruCache, lruMax, lruUsed, lruLast>>
protocolVars == <<cacheConfig, requests, vectorTileCache, vectorTileInFlight,
                  meshFeaturesCache, meshFeaturesInFlight, fetches>>
appVars == <<apiVars, callVars, lruVars, protocolVars>>
vars == <<xyzPc, xyzTile, xyzGiven, xyzEnc, xyzDec, xyzAssert,
          hasStreams, input, encPc, encLocals, encResult, file, origin,
          insResult, decStage, decLocals, decResult, appVars>>

None == [ok |-> FALSE, code |-> "NOT_CALLED"]
Ok(v) == [ok |-> TRUE, value |-> v]
Err(c) == [ok |-> FALSE, code |-> c]

(***************************************************************************)
(* 64-bit bigint arithmetic, as the operators the source applies.          *)
(***************************************************************************)
U64_BITS == 64
ZOOM_BITS == 6
QUADKEY_BITS == U64_BITS - ZOOM_BITS
ZOOM_SHIFT == QUADKEY_BITS
MAX_ZOOM == QUADKEY_BITS \div 2

BitIndex == 0..(U64_BITS - 1)
\* 2^31 does not fit the checker's integers: a number below 2^31 has no bit there.
NatBit(n, i) == IF i < 31 THEN (n \div (2 ^ i)) % 2 ELSE 0
\* BigInt(n) for a non-negative integer n
BigInt(n) == [i \in BitIndex |-> NatBit(n, i)]
BigZero == [i \in BitIndex |-> 0]
\* a << n, kept to 64 bits
Shl(a, n) == [i \in BitIndex |-> IF i >= n THEN a[i - n] ELSE 0]
\* a >> n
Shr(a, n) == [i \in BitIndex |-> IF i + n < U64_BITS THEN a[i + n] ELSE 0]
BitOr(a, b) == [i \in BitIndex |-> IF a[i] = 1 \/ b[i] = 1 THEN 1 ELSE 0]
BitAnd(a, b) == [i \in BitIndex |-> IF a[i] = 1 /\ b[i] = 1 THEN 1 ELSE 0]
\* a - 1n for a # 0: the lowest set bit is cleared and the bits below it set
LowestSet(a) == CHOOSE i \in BitIndex : a[i] = 1 /\ \A j \in 0..(i - 1) : a[j] = 0
Dec(a) == [i \in BitIndex |->
             IF i < LowestSet(a) THEN 1 ELSE IF i = LowestSet(a) THEN 0 ELSE a[i]]
\* a < b on unsigned 64-bit values
BigLess(a, b) ==
    \E i \in BitIndex : a[i] = 0 /\ b[i] = 1
                        /\ \A j \in (i + 1)..(U64_BITS - 1) : a[j] = b[j]
RECURSIVE SumBits(_, _)
SumBits(a, i) == IF i < 0 THEN 0 ELSE a[i] * (2 ^ i) + SumBits(a, i - 1)
\* Number(a), for a bigint below 2^31
ToNumber(a) == SumBits(a, 30)

QUADKEY_MASK == Dec(Shl(BigInt(1), QUADKEY_BITS))
\* 0x3n
DIGIT_MASK == BigInt(3)

(***************************************************************************)
(* tile-id.ts                                                              *)
(***************************************************************************)
\* normalizeUnsignedU64 on a bigint: the 64-bit vectors are the values in range
NormalizeUnsignedU64(value) == Ok(value)

\* (a plausible slip: the zoom bound off by one)
NormalizeZoomLoose(zoom) ==
    IF zoom < 0 \/ zoom > MAX_ZOOM + 1 THEN Err("INVALID_FIELD_VALUE") ELSE Ok(zoom)

NormalizeZoom(zoom) ==
    IF zoom < 0 \/ zoom > MAX_ZOOM THEN Err("INVALID_FIELD_VALUE") ELSE Ok(zoom)

NormalizeCoordinate(value, zoom) ==
    LET maxExclusive == 2 ^ zoom
    IN  IF value < 0 \/ value >= maxExclusive
        THEN Err("INVALID_FIELD_VALUE")
        ELSE Ok(value)

\* (a plausible slip: the two coordinates interleaved the other way round)
XyzDigitSwapped(x, y, bit) ==
    LET xBit == (x \div (2 ^ bit)) % 2
        yBit == (y \div (2 ^ bit)) % 2
    IN  yBit + 2 * xBit

\* the digit of one loop iteration of encodeXyzTileId
XyzDigit(x, y, bit) ==
    LET xBit == (x \div (2 ^ bit)) % 2
        yBit == (y \div (2 ^ bit)) % 2
    IN  xBit + 2 * yBit

RECURSIVE QuadkeyLoop(_, _, _, _)
QuadkeyLoop(x, y, bit, quadkeyInteger) ==
    IF bit < 0 THEN quadkeyInteger
    ELSE QuadkeyLoop(x, y, bit - 1,
                     BitOr(Shl(quadkeyInteger, 2), BigInt(XyzDigit(x, y, bit))))

EncodeXyzTileId(tile) ==
    LET zoom == NormalizeZoom(tile.zoom)
    IN  IF ~zoom.ok THEN zoom
        ELSE LET x == NormalizeCoordinate(tile.x, zoom.value)
             IN  IF ~x.ok THEN x
                 ELSE LET y == NormalizeCoordinate(tile.y, zoom.value)
                      IN  IF ~y.ok THEN y
                          ELSE Ok(BitOr(Shl(BigInt(zoom.value), ZOOM_SHIFT),
                                        QuadkeyLoop(x.value, y.value,
                                                    zoom.value - 1, BigZero)))

RECURSIVE XyzLoop(_, _, _, _, _)
XyzLoop(quadkeyInteger, zoom, level, x, y) ==
    IF level >= zoom THEN [x |-> x, y |-> y]
    ELSE LET shift == (zoom - level - 1) * 2
             digit == ToNumber(BitAnd(Shr(quadkeyInteger, shift), DIGIT_MASK))
         IN  XyzLoop(quadkeyInteger, zoom, level + 1,
                     x * 2 + (digit % 2), y * 2 + ((digit \div 2) % 2))

DecodeXyzTileId(tileId) ==
    LET normalized == NormalizeUnsignedU64(tileId).value
        zoom == ToNumber(Shr(normalized, ZOOM_SHIFT))
        quadkeyInteger == BitAnd(normalized, QUADKEY_MASK)
        quadkeyBitsUsed == zoom * 2
        xy == XyzLoop(quadkeyInteger, zoom, 0, 0, 0)
    IN  IF zoom > MAX_ZOOM THEN Err("INVALID_FIELD_VALUE")
        ELSE IF quadkeyBitsUsed < QUADKEY_BITS
                /\ Shr(quadkeyInteger, quadkeyBitsUsed) # BigZero
        THEN Err("INVALID_FIELD_VALUE")
        ELSE Ok([zoom |-> zoom, x |-> xy.x, y |-> xy.y,
                 quadkey_integer |-> quadkeyInteger])

AssertValidXyzTileId(tileId) ==
    LET normalized == NormalizeUnsignedU64(tileId).value
        decoded == DecodeXyzTileId(normalized)
    IN  IF ~decoded.ok THEN decoded ELSE Ok(normalized)

(***************************************************************************)
(* crc32.ts.  A 32-bit word is its four bytes, least significant first,    *)
(* which is also how the header stores it.                                 *)
(***************************************************************************)
Byte == 0..255
RECURSIVE XorBits(_, _, _)
XorBits(a, b, n) ==
    IF n = 0 THEN 0
    ELSE ((a + b) % 2) + 2 * XorBits(a \div 2, b \div 2, n - 1)
XOR4 == [a \in 0..15 |-> [b \in 0..15 |-> XorBits(a, b, 4)]]
\* a ^ b on bytes
XorByte(a, b) == 16 * XOR4[a \div 16][b \div 16] + XOR4[a % 16][b % 16]
\* a ^ b on words
XorWord(a, b) == [i \in 1..4 |-> XorByte(a[i], b[i])]
\* w >>> 1
Ushr1(w) == [i \in 1..4 |-> (w[i] \div 2) + (IF i < 4 THEN 128 * (w[i + 1] % 2) ELSE 0)]
\* w >>> 8
Ushr8(w) == <<w[2], w[3], w[4], 0>>
\* 0xedb88320
CRC_POLY == <<32, 131, 184, 237>>
\* 0xffffffff
WORD_ONES == <<255, 255, 255, 255>>

RECURSIVE CrcTableLoop(_, _)
CrcTableLoop(crc, bit) ==
    IF bit >= 8 THEN crc
    ELSE CrcTableLoop(IF crc[1] % 2 # 0 THEN XorWord(Ushr1(crc), CRC_POLY) ELSE Ushr1(crc),
                      bit + 1)
CRC_TABLE == [byte \in Byte |-> CrcTableLoop(<<byte, 0, 0, 0>>, 0)]

\* one iteration of the loop of crc32
Crc32Step(crc, byte) == XorWord(Ushr8(crc), CRC_TABLE[XorByte(crc[1], byte)])
\* the loop of crc32 over bytes[lo..hi], entered with crc.  The iterations run
\* in order; the range is halved only to keep the evaluation shallow, and the
\* guard on the left half's result makes it the value the right half starts from.
RECURSIVE Crc32Loop(_, _, _, _)
Crc32Loop(bytes, lo, hi, crc) ==
    IF lo > hi THEN crc
    ELSE IF lo = hi THEN Crc32Step(crc, bytes[lo])
    ELSE LET mid == (lo + hi) \div 2
             left == Crc32Loop(bytes, lo, mid, crc)
         IN  IF Len(left) = 4 THEN Crc32Loop(bytes, mid + 1, hi, left) ELSE left
\* (the set over {bytes} makes the argument a value before the loop reads it)
crc32(bytes) == XorWord(Crc32Loop(bytes, 1, Len(bytes), WORD_ONES), WORD_ONES)

(***************************************************************************)
(* JavaScript numbers.  A number is its IEEE-754 binary64 pattern: eight   *)
(* bytes, sign and exponent first.  The operators below are the ones the   *)
(* source applies to sample values: Number.isFinite, Number.isNaN,         *)
(* Number.isInteger, < and >, and the DataView accessors.                  *)
(***************************************************************************)
F64Sign(v) == v[1] \div 128
F64Exp(v) == (v[1] % 128) * 16 + (v[2] \div 16)
\* the 52 mantissa bits: the upper 28 and the lower 24
F64MantHi(v) == (v[2] % 16) * 16777216 + v[3] * 65536 + v[4] * 256 + v[5]
F64MantLo(v) == v[6] * 65536 + v[7] * 256 + v[8]
F64Pack(sign, exp, mantHi, mantLo) ==
    << sign * 128 + (exp \div 16),
       (exp % 16) * 16 + (mantHi \div 16777216),
       (mantHi \div 65536) % 256, (mantHi \div 256) % 256, mantHi % 256,
       mantLo \div 65536, (mantLo \div 256) % 256, mantLo % 256 >>

NAN == F64Pack(0, 2047, 134217728, 0)
POSITIVE_INFINITY == F64Pack(0, 2047, 0, 0)
NEGATIVE_INFINITY == F64Pack(1, 2047, 0, 0)
ZERO == F64Pack(0, 0, 0, 0)

IsNaN(v) == F64Exp(v) = 2047 /\ (F64MantHi(v) # 0 \/ F64MantLo(v) # 0)
IsFinite(v) == F64Exp(v) # 2047
IsZero(v) == F64Exp(v) = 0 /\ F64MantHi(v) = 0 /\ F64MantLo(v) = 0
\* the low n bits of the mantissa are zero
MantLowZero(v, n) ==
    IF n <= 24 THEN F64MantLo(v) % (2 ^ n) = 0
    ELSE F64MantLo(v) = 0 /\ F64MantHi(v) % (2 ^ (n - 24)) = 0
IsInteger(v) ==
    /\ IsFinite(v)
    /\ \/ IsZero(v)
       \/ F64Exp(v) >= 1023 + 52
       \/ F64Exp(v) >= 1023 /\ F64Exp(v) < 1023 + 52 /\ MantLowZero(v, 52 - (F64Exp(v) - 1023))
\* |a| < |b|
MagLess(a, b) ==
    \/ F64Exp(a) < F64Exp(b)
    \/ F64Exp(a) = F64Exp(b) /\ F64MantHi(a) < F64MantHi(b)
    \/ F64Exp(a) = F64Exp(b) /\ F64MantHi(a) = F64MantHi(b) /\ F64MantLo(a) < F64MantLo(b)
\* a < b
NumLess(a, b) ==
    /\ ~IsNaN(a) /\ ~IsNaN(b)
    /\ ~(IsZero(a) /\ IsZero(b))
    /\ \/ F64Sign(a) = 1 /\ F64Sign(b) = 0
       \/ F64Sign(a) = 0 /\ F64Sign(b) = 0 /\ MagLess(a, b)
       \/ F64Sign(a) = 1 /\ F64Sign(b) = 1 /\ MagLess(b, a)

\* floor(log2 n) for 1 <= n < 2^31
Log2(n) == CHOOSE k \in 0..30 : n \div (2 ^ k) = 1
\* the number (-1)^sign * (2^k + frac), for 0 <= frac < 2^k and k <= 31
F64FromParts(sign, k, frac) ==
    IF k <= 28 THEN F64Pack(sign, 1023 + k, frac * (2 ^ (28 - k)), 0)
    ELSE F64Pack(sign, 1023 + k, frac \div (2 ^ (k - 28)),
                 (frac % (2 ^ (k - 28))) * (2 ^ (52 - k)))
\* the number n, for an integer |n| < 2^31
Num(n) ==
    IF n = 0 THEN ZERO
    ELSE LET m == IF n < 0 THEN 0 - n ELSE n
             k == Log2(m)
         IN  F64FromParts(IF n < 0 THEN 1 ELSE 0, k, m - 2 ^ k)

(***************************************************************************)
(* The DataView accessors behind DTYPE_SPECS (payload.ts).  Each write     *)
(* gives the bytes from the most significant one down; the byte order in   *)
(* the buffer is applied by DTypeWrite and DTypeRead.                      *)
(***************************************************************************)
Reverse(seq) == [i \in 1..Len(seq) |-> seq[Len(seq) + 1 - i]]
MantBit(v, i) ==
    IF i < 24 THEN (F64MantLo(v) \div (2 ^ i)) % 2
    ELSE (F64MantHi(v) \div (2 ^ (i - 24))) % 2
\* bit j of the integer part of |v|, for a finite v
IntBit(v, j) ==
    LET e == F64Exp(v) - 1023
    IN  IF e < 0 THEN 0
        ELSE IF j = e THEN 1
        ELSE IF j < e /\ 52 - e + j >= 0 THEN MantBit(v, 52 - e + j)
        ELSE 0
RECURSIVE IntBits16(_, _, _)
IntBits16(v, from, n) ==
    IF n = 0 THEN 0 ELSE IntBit(v, from) + 2 * IntBits16(v, from + 1, n - 1)
\* two's complement of a 32-bit value held as two 16-bit halves
Negate32(w) ==
    [hi |-> (65535 - w.hi + (IF w.lo = 0 THEN 1 ELSE 0)) % 65536,
     lo |-> (65536 - w.lo) % 65536]
\* ToUint32 / ToInt32 of the specification of DataView: the integer part of v
\* modulo 2^32, and 0 for a value that is not finite
ToUint32(v) ==
    LET mag == [hi |-> IntBits16(v, 16, 16), lo |-> IntBits16(v, 0, 16)]
    IN  IF ~IsFinite(v) THEN [hi |-> 0, lo |-> 0]
        ELSE IF F64Sign(v) = 1 THEN Negate32(mag) ELSE mag
\* setUint8, setInt8, setUint16, setInt16, setUint32, setInt32: the low w bytes
WriteInt(v, w) ==
    LET u == ToUint32(v)
        be == <<u.hi \div 256, u.hi % 256, u.lo \div 256, u.lo % 256>>
    IN  SubSeq(be, 5 - w, 4)
\* the number hi * 2^16 + lo, negated when sign = 1
NumFrom32(sign, w) ==
    IF w.hi >= 32768 THEN F64FromParts(sign, 31, (w.hi - 32768) * 65536 + w.lo)
    ELSE IF w.hi = 0 /\ w.lo = 0 THEN ZERO
    ELSE LET n == w.hi * 65536 + w.lo
         IN  F64FromParts(sign, Log2(n), n - 2 ^ Log2(n))
\* the w bytes as an unsigned value in two 16-bit halves
Halves(be) ==
    LET b == [i \in 1..(4 - Len(be)) |-> 0] \o be
    IN  [hi |-> b[1] * 256 + b[2], lo |-> b[3] * 256 + b[4]]
\* getUint8, getUint16, getUint32
ReadUint(be) == NumFrom32(0, Halves(be))
\* getInt8, getInt16, getInt32: sign-extended
ReadInt(be) ==
    LET ext == [i \in 1..(4 - Len(be)) |-> 255] \o be
    IN  IF be[1] >= 128 THEN NumFrom32(1, Negate32(Halves(ext)))
        ELSE NumFrom32(0, Halves(be))

\* setFloat32: the nearest binary32, ties to even
WriteFloat32(v) ==
    LET sign == F64Sign(v)
        e32 == F64Exp(v) - 896
        m23 == F64MantHi(v) \div 32
        rest == (F64MantHi(v) % 32) * 16777216 + F64MantLo(v)
        up == rest > 268435456 \/ (rest = 268435456 /\ m23 % 2 = 1)
        \* exponent and fraction as one 31-bit count, so that a carry out of
        \* the fraction raises the exponent
        normal == e32 * 8388608 + m23 + (IF up THEN 1 ELSE 0)
        shift == 1 - e32
        sig == 8388608 + m23
        q == sig \div (2 ^ shift)
        rem == sig % (2 ^ shift)
        half == 2 ^ (shift - 1)
        subUp == rem > half \/ (rem = half /\ (rest # 0 \/ q % 2 = 1))
        sub == IF shift > 24 THEN 0 ELSE q + (IF subUp THEN 1 ELSE 0)
        bits == IF IsNaN(v) THEN 255 * 8388608 + 4194304
                ELSE IF ~IsFinite(v) THEN 255 * 8388608
                ELSE IF IsZero(v) THEN 0
                ELSE IF e32 >= 255 THEN 255 * 8388608
                ELSE IF e32 <= 0 THEN sub
                ELSE IF normal >= 255 * 8388608 THEN 255 * 8388608
                ELSE normal
    IN  << sign * 128 + (bits \div 16777216), (bits \div 65536) % 256,
           (bits \div 256) % 256, bits % 256 >>
\* getFloat32
ReadFloat32(be) ==
    LET sign == be[1] \div 128
        e8 == (be[1] % 128) * 2 + (be[2] \div 128)
        m23 == (be[2] % 128) * 65536 + be[3] * 256 + be[4]
    IN  IF e8 = 255 THEN (IF m23 = 0 THEN F64Pack(sign, 2047, 0, 0) ELSE NAN)
        ELSE IF e8 = 0 /\ m23 = 0 THEN F64Pack(sign, 0, 0, 0)
        ELSE IF e8 = 0
        THEN F64Pack(sign, 1023 - 149 + Log2(m23),
                     (m23 - 2 ^ Log2(m23)) * (2 ^ (28 - Log2(m23))), 0)
        ELSE F64Pack(sign, e8 + 896, m23 * 32, 0)
\* setFloat64 / getFloat64
WriteFloat64(v) == IF IsNaN(v) THEN NAN ELSE v
ReadFloat64(be) == IF IsNaN(be) THEN NAN ELSE be

DTypes == {"uint8", "int8", "uint16", "int16", "uint32", "int32", "float32", "float64"}
\* DTYPE_SPECS[dtype].byteSize
byteLengthForDType(dtype) ==
    CASE dtype \in {"uint8", "int8"} -> 1
      [] dtype \in {"uint16", "int16"} -> 2
      [] dtype \in {"uint32", "int32", "float32"} -> 4
      [] dtype = "float64" -> 8
\* DTYPE_SPECS[dtype].write: the bytes stored at the offset
DTypeWrite(dtype, value, littleEndian) ==
    LET Stored(be) == IF littleEndian THEN Reverse(be) ELSE be
    IN  Stored(CASE dtype = "float32" -> WriteFloat32(value)
                 [] dtype = "float64" -> WriteFloat64(value)
                 [] OTHER -> WriteInt(value, byteLengthForDType(dtype)))
\* DTYPE_SPECS[dtype].read of the bytes at the offset
DTypeRead(dtype, bytes, littleEndian) ==
    LET be == IF littleEndian THEN Reverse(bytes) ELSE bytes
    IN  CASE dtype = "float32" -> ReadFloat32(be)
          [] dtype = "float64" -> ReadFloat64(be)
          [] dtype \in {"uint8", "uint16", "uint32"} -> ReadUint(be)
          [] OTHER -> ReadInt(be)

\* DTYPE_MIN_MAX
DTYPE_MIN_MAX(dtype) ==
    CASE dtype = "uint8" -> [min |-> ZERO, max |-> Num(255), integer |-> TRUE]
      [] dtype = "int8" -> [min |-> Num(-128), max |-> Num(127), integer |-> TRUE]
      [] dtype = "uint16" -> [min |-> ZERO, max |-> Num(65535), integer |-> TRUE]
      [] dtype = "int16" -> [min |-> Num(-32768), max |-> Num(32767), integer |-> TRUE]
      [] dtype = "uint32" ->
            [min |-> ZERO, max |-> F64FromParts(0, 31, 2147483647), integer |-> TRUE]
      [] dtype = "int32" ->
            [min |-> F64FromParts(1, 31, 0), max |-> Num(2147483647), integer |-> TRUE]
      [] dtype = "float32" ->
            \* the literals -3.4e38 and 3.4e38
            [min |-> <<199, 239, 249, 51, 199, 140, 223, 173>>,
             max |-> <<71, 239, 249, 51, 199, 140, 223, 173>>, integer |-> FALSE]
      [] dtype = "float64" ->
            [min |-> NEGATIVE_INFINITY, max |-> POSITIVE_INFINITY, integer |-> FALSE]

\* the three rejections of the loop body of encodeValues, for one value
ValueRejectedLoose(dtype, value) ==
    LET limits == DTYPE_MIN_MAX(dtype)
    IN  \/ ~IsFinite(value) /\ ~(dtype \in {"float32", "float64"} /\ IsNaN(value))
        \/ limits.integer /\ ~IsInteger(value)
ValueRejected(dtype, value) ==
    LET limits == DTYPE_MIN_MAX(dtype)
        allowFloatNaN == dtype = "float32" \/ dtype = "float64"
    IN  \/ ~IsFinite(value) /\ ~(allowFloatNaN /\ IsNaN(value))
        \/ limits.integer /\ ~IsInteger(value)
        \/ NumLess(value, limits.min) \/ NumLess(limits.max, value)

\* the loop over the values lo..hi, split in two halves, with the bytes of
\* the values in the order of the values
RECURSIVE WriteAll(_, _, _, _, _)
WriteAll(dtype, values, lo, hi, littleEndian) ==
    IF lo > hi THEN <<>>
    ELSE IF lo = hi THEN DTypeWrite(dtype, values[lo], littleEndian)
    ELSE LET mid == (lo + hi) \div 2
         IN  WriteAll(dtype, values, lo, mid, littleEndian)
                \o WriteAll(dtype, values, mid + 1, hi, littleEndian)
encodeValues(dtype, values, elementCount, littleEndian) ==
    IF Len(values) # elementCount THEN Err("INVALID_FIELD_VALUE")
    ELSE IF \E i \in 1..elementCount : ValueRejected(dtype, values[i])
    THEN Err("INVALID_FIELD_VALUE")
    ELSE Ok(WriteAll(dtype, values, 1, elementCount, littleEndian))

\* new Uint8Array(values), ..., new Float64Array(values): each element is
\* converted to the element type of the array
toTypedArray(dtype, values) ==
    [i \in 1..Len(values) |->
        DTypeRead(dtype, DTypeWrite(dtype, values[i], FALSE), FALSE)]
decodeValues(dtype, bytes, littleEndian) ==
    LET byteSize == byteLengthForDType(dtype)
        sampleCount == Len(bytes) \div byteSize
        values == [i \in 1..sampleCount |->
                     DTypeRead(dtype,
                               SubSeq(bytes, (i - 1) * byteSize + 1, i * byteSize),
                               littleEndian)]
    IN  IF Len(bytes) % byteSize # 0 THEN Err("INVALID_FIELD_VALUE")
        ELSE Ok(toTypedArray(dtype, values))

(***************************************************************************)
(* compression.ts.  The runtime's CompressionStream is not part of the     *)
(* repository; of raw DEFLATE the model keeps what the codec relies on:    *)
(* the compressor emits one stream that the decompressor turns back into   *)
(* the payload (here a single stored block: the final-block byte, LEN and  *)
(* its complement NLEN, then the bytes), and the decompressor rejects      *)
(* anything that is not such a stream.                                     *)
(***************************************************************************)
isCompressionModeSupported(mode, streams) ==
    IF mode = "none" THEN TRUE
    ELSE IF ~streams THEN FALSE
    ELSE mode = "deflate-raw"
Deflate(payload) ==
    LET n == Len(payload)
    IN  <<1, n % 256, n \div 256, 255 - (n % 256), 255 - (n \div 256)>> \o payload
Inflate(stream) ==
    LET n == stream[2] + 256 * stream[3]
    IN  IF /\ Len(stream) >= 5
           /\ stream[1] = 1
           /\ stream[4] = 255 - stream[2]
           /\ stream[5] = 255 - stream[3]
           /\ Len(stream) = 5 + n
        THEN Ok(SubSeq(stream, 6, Len(stream)))
        ELSE Err("DECOMPRESSION_FAILED")
convert(mode, payload, operation, streams) ==
    IF mode = "none" THEN Ok(payload)
    ELSE IF ~isCompressionModeSupported(mode, streams)
    THEN Err("UNSUPPORTED_COMPRESSION")
    ELSE IF operation = "compress" THEN Ok(Deflate(payload))
    ELSE Inflate(payload)
compressPayload(mode, payload, streams) ==
    convert(mode, payload, "compress", streams)
decompressPayload(mode, payload, streams) ==
    convert(mode, payload, "decompress", streams)

(***************************************************************************)
(* tile-format.ts.  A Uint8Array is a sequence of bytes: the byte at       *)
(* offset k is element k + 1.  A value that is null or undefined is one of *)
(* the two markers below.                                                  *)
(***************************************************************************)
Null == <<"null">>
Undefined == <<"undefined">>
\* a magic that is not "MTI1"
MAGIC_MTI2 == <<77, 84, 73, 50>>
MAGIC == <<77, 84, 73, 49>>
VERSION_MAJOR == 1
FIXED_HEADER_LENGTH == 58
HEADER_CHECKSUM_OFFSET == 54
HEADER_CHECKSUM_INPUT_LENGTH == HEADER_CHECKSUM_OFFSET
OFFSET_FORMAT_MAJOR == 4
OFFSET_TILE_ID == 5
OFFSET_MESH_KIND == 13
OFFSET_DTYPE_ENDIAN == 14
OFFSET_COMPRESSION == 15
OFFSET_ROWS == 16
OFFSET_COLS == 20
OFFSET_BANDS == 24
OFFSET_NO_DATA_KIND == 25
OFFSET_NO_DATA_VALUE == 26
OFFSET_UNCOMPRESSED_PAYLOAD_LENGTH == 34
OFFSET_COMPRESSED_PAYLOAD_LENGTH == 42
OFFSET_PAYLOAD_CHECKSUM == 50
\* bit 53 is the lowest bit that no value up to Number.MAX_SAFE_INTEGER has
SAFE_INTEGER_BITS == 53

\* the enum tables: a key that is missing is outside the DOMAIN
DTYPE_TO_CODE ==
    "uint8" :> 0 @@ "int8" :> 1 @@ "uint16" :> 2 @@ "int16" :> 3 @@
    "uint32" :> 4 @@ "int32" :> 5 @@ "float32" :> 6 @@ "float64" :> 7
CODE_TO_DTYPE ==
    0 :> "uint8" @@ 1 :> "int8" @@ 2 :> "uint16" @@ 3 :> "int16" @@
    4 :> "uint32" @@ 5 :> "int32" @@ 6 :> "float32" @@ 7 :> "float64"
MESH_KIND_TO_CODE == "jis-x0410" :> 1 @@ "xyz" :> 2
CODE_TO_MESH_KIND == 1 :> "jis-x0410" @@ 2 :> "xyz"
COMPRESSION_TO_CODE == "none" :> 0 @@ "deflate-raw" :> 1
CODE_TO_COMPRESSION == 0 :> "none" @@ 1 :> "deflate-raw"

\* bytes.slice(from, to) and bytes.subarray(from, to), for 0 <= from <= to
Slice(bytes, from, to) ==
    SubSeq(bytes, from + 1, IF to < Len(bytes) THEN to ELSE Len(bytes))
\* out.set(part, offset)
SetBytes(out, part, offset) ==
    [i \in 1..Len(out) |->
        IF i > offset /\ i <= offset + Len(part) THEN part[i - offset] ELSE out[i]]
Zeros(n) == [i \in 1..n |-> 0]
\* view.getBigUint64(offset, true)
readU64LE(bytes, offset) ==
    [i \in BitIndex |-> (bytes[offset + 1 + (i \div 8)] \div (2 ^ (i % 8))) % 2]
RECURSIVE BitsToByte(_, _, _)
BitsToByte(value, from, n) ==
    IF n = 0 THEN 0 ELSE value[from] + 2 * BitsToByte(value, from + 1, n - 1)
\* the eight bytes that view.setBigUint64(offset, value, true) stores
writeU64LE(value) == [k \in 1..8 |-> BitsToByte(value, 8 * (k - 1), 8)]
\* Number(value) of a bigint below 2^53, and BigInt(n) of such a number
HighestSet(a) == CHOOSE i \in BitIndex : a[i] = 1 /\ \A j \in (i + 1)..(U64_BITS - 1) : a[j] = 0
RECURSIVE MantissaOf(_, _, _, _)
MantissaOf(a, k, from, n) ==
    IF n = 0 THEN 0
    ELSE (IF from >= 52 - k THEN a[from - (52 - k)] ELSE 0)
            + 2 * MantissaOf(a, k, from + 1, n - 1)
BigToNumber(a) ==
    IF a = BigZero THEN ZERO
    ELSE LET k == HighestSet(a)
         IN  F64Pack(0, 1023 + k, MantissaOf(a, k, 24, 28), MantissaOf(a, k, 0, 24))
NumberToBig(v) == [i \in BitIndex |-> IntBit(v, i)]
\* a number below 2^31 in magnitude as an integer of the model
ToInt(v) ==
    LET mag == IntBits16(v, 16, 15) * 65536 + IntBits16(v, 0, 16)
    IN  IF F64Sign(v) = 1 THEN 0 - mag ELSE mag
\* value.toString(16).padStart(8, '0') of a 32-bit word: eight hexadecimal
\* digits, the most significant first; and Number(BigInt('0x' + text))
ToHex(word) ==
    << word[4] \div 16, word[4] % 16, word[3] \div 16, word[3] % 16,
       word[2] \div 16, word[2] % 16, word[1] \div 16, word[1] % 16 >>
FromHex(text) ==
    << text[7] * 16 + text[8], text[5] * 16 + text[6],
       text[3] * 16 + text[4], text[1] * 16 + text[2] >>

\* A tile id given to encodeTile is a bigint or a number: its type, whether
\* it is negative, whether it is an integer, and its magnitude.
normalizeTileId(tileId) ==
    IF tileId.type = "number" /\ ~tileId.integral THEN Err("INVALID_FIELD_VALUE")
    ELSE IF tileId.neg /\ tileId.mag # BigZero THEN Err("INVALID_FIELD_VALUE")
    ELSE Ok(tileId.mag)
normalizeDimension(value) ==
    IF ~IsInteger(value) \/ IsZero(value) \/ NumLess(value, ZERO)
    THEN Err("INVALID_FIELD_VALUE")
    ELSE IF NumLess(F64FromParts(0, 31, 2147483647), value)
    THEN Err("INVALID_FIELD_VALUE")
    ELSE Ok(value)
\* normalizeBands without the limit of one byte
normalizeBandsUnbounded(value) ==
    IF ~IsInteger(value) \/ IsZero(value) \/ NumLess(value, ZERO)
    THEN Err("INVALID_FIELD_VALUE")
    ELSE Ok(value)
normalizeBands(value) ==
    IF ~IsInteger(value) \/ IsZero(value) \/ NumLess(value, ZERO)
    THEN Err("INVALID_FIELD_VALUE")
    ELSE IF NumLess(Num(255), value) THEN Err("INVALID_FIELD_VALUE")
    ELSE Ok(value)
\* the product is computed on integers of the model: the dimensions the
\* model runs with keep it far below 2^31, and so a safe integer
totalSamples(dimensions) ==
    LET Checked(count) == IF count <= 0 THEN Err("INVALID_FIELD_VALUE") ELSE Ok(count)
    IN  Checked(ToInt(dimensions.rows) * ToInt(dimensions.cols)
                    * ToInt(dimensions.bands))
packDTypeEndian(dtype, endianness) ==
    IF dtype \notin DOMAIN DTYPE_TO_CODE THEN Err("INVALID_FIELD_VALUE")
    ELSE Ok((IF endianness = "big" THEN 128 ELSE 0) + DTYPE_TO_CODE[dtype])
unpackDTypeEndian(packed) ==
    LET dtypeCode == packed % 128
    IN  IF dtypeCode \notin DOMAIN CODE_TO_DTYPE THEN Err("INVALID_FIELD_VALUE")
        ELSE Ok([dtype |-> CODE_TO_DTYPE[dtypeCode],
                 endianness |-> IF packed \div 128 # 0 THEN "big" ELSE "little"])
\* u64ToSafeNumber without its check against MAX_SAFE_INTEGER
u64ToSafeNumberUnchecked(value) == Ok(BigToNumber(value))
\* u64ToSafeNumber with the limit one bit too high: 2^53 passes
u64ToSafeNumberWide(value) ==
    IF \E i \in (SAFE_INTEGER_BITS + 1)..(U64_BITS - 1) : value[i] = 1
    THEN Err("INVALID_HEADER_LENGTH")
    ELSE Ok(BigToNumber(value))
u64ToSafeNumber(value) ==
    IF \E i \in SAFE_INTEGER_BITS..(U64_BITS - 1) : value[i] = 1
    THEN Err("INVALID_HEADER_LENGTH")
    ELSE Ok(BigToNumber(value))
\* verifyHeaderChecksum that accepts every stored checksum
verifyHeaderChecksumLoose(headerBytes, expected) == TRUE
verifyHeaderChecksum(headerBytes, expected) ==
    crc32(Slice(headerBytes, 0, HEADER_CHECKSUM_INPUT_LENGTH)) = expected
parseEnum(value, map) ==
    IF value \notin DOMAIN map THEN Err("INVALID_FIELD_VALUE") ELSE Ok(map[value])
validateNoData(noData) ==
    IF noData = Undefined \/ noData = Null THEN Ok(Null)
    ELSE IF ~IsFinite(noData) THEN Err("INVALID_FIELD_VALUE")
    ELSE Ok(noData)
\* encodeNoDataField with the value always stored from offset 0 on
encodeNoDataFieldFlat(value, dtype, littleEndian) ==
    LET bytes == Zeros(8)
        Place(encoded) ==
            IF ~encoded.ok THEN encoded
            ELSE Ok([kind |-> 1, bytes |-> SetBytes(bytes, encoded.value, 0)])
    IN  IF value = Null THEN Ok([kind |-> 0, bytes |-> bytes])
        ELSE Place(encodeValues(dtype, <<value>>, 1, littleEndian))
\* Place is the part of the function after encodeValues has returned
encodeNoDataField(value, dtype, littleEndian) ==
    LET bytes == Zeros(8)
        Place(encoded) ==
            IF ~encoded.ok THEN encoded
            ELSE IF littleEndian
            THEN Ok([kind |-> 1, bytes |-> SetBytes(bytes, encoded.value, 0)])
            ELSE Ok([kind |-> 1,
                     bytes |-> SetBytes(bytes, encoded.value, 8 - Len(encoded.value))])
    IN  IF value = Null THEN Ok([kind |-> 0, bytes |-> bytes])
        ELSE Place(encodeValues(dtype, <<value>>, 1, littleEndian))
\* decodeNoDataField that checks the padding of little-endian values only
decodeNoDataFieldLittleOnly(kind, bytes, dtype, littleEndian) ==
    LET valueByteLength == byteLengthForDType(dtype)
        padLength == 8 - valueByteLength
        padded == littleEndian /\ \E i \in valueByteLength..7 : bytes[i + 1] # 0
        valueBytes == IF littleEndian THEN Slice(bytes, 0, valueByteLength)
                      ELSE Slice(bytes, padLength, 8)
        Finite(decoded) ==
            IF ~decoded.ok THEN decoded
            ELSE IF ~IsFinite(decoded.value[1]) THEN Err("INVALID_FIELD_VALUE")
            ELSE Ok(decoded.value[1])
    IN  IF Len(bytes) # 8 THEN Err("INTERNAL_FAILURE")
        ELSE IF kind = 0
        THEN (IF \E i \in 1..8 : bytes[i] # 0 THEN Err("INVALID_FIELD_VALUE")
              ELSE Ok(Null))
        ELSE IF kind # 1 THEN Err("INVALID_FIELD_VALUE")
        ELSE IF padded THEN Err("INVALID_FIELD_VALUE")
        ELSE Finite(decodeValues(dtype, valueBytes, littleEndian))
\* decodeNoDataField that takes the slot to have the width of the dtype
decodeNoDataFieldWidth(kind, bytes, dtype, littleEndian) ==
    LET valueByteLength == byteLengthForDType(dtype)
        padLength == 8 - valueByteLength
        padded == IF littleEndian
                  THEN \E i \in valueByteLength..7 : bytes[i + 1] # 0
                  ELSE \E i \in 0..(padLength - 1) : bytes[i + 1] # 0
        valueBytes == IF littleEndian THEN Slice(bytes, 0, valueByteLength)
                      ELSE Slice(bytes, padLength, 8)
        Finite(decoded) ==
            IF ~decoded.ok THEN decoded
            ELSE IF ~IsFinite(decoded.value[1]) THEN Err("INVALID_FIELD_VALUE")
            ELSE Ok(decoded.value[1])
    IN  IF Len(bytes) # valueByteLength THEN Err("INTERNAL_FAILURE")
        ELSE IF kind = 0
        THEN (IF \E i \in 1..8 : bytes[i] # 0 THEN Err("INVALID_FIELD_VALUE")
              ELSE Ok(Null))
        ELSE IF kind # 1 THEN Err("INVALID_FIELD_VALUE")
        ELSE IF padded THEN Err("INVALID_FIELD_VALUE")
        ELSE Finite(decodeValues(dtype, valueBytes, littleEndian))
decodeNoDataField(kind, bytes, dtype, littleEndian) ==
    LET valueByteLength == byteLengthForDType(dtype)
        padLength == 8 - valueByteLength
        padded == IF littleEndian
                  THEN \E i \in valueByteLength..7 : bytes[i + 1] # 0
                  ELSE \E i \in 0..(padLength - 1) : bytes[i + 1] # 0
        valueBytes == IF littleEndian THEN Slice(bytes, 0, valueByteLength)
                      ELSE Slice(bytes, padLength, 8)
        Finite(decoded) ==
            IF ~decoded.ok THEN decoded
            ELSE IF ~IsFinite(decoded.value[1]) THEN Err("INVALID_FIELD_VALUE")
            ELSE Ok(decoded.value[1])
    IN  IF Len(bytes) # 8 THEN Err("INTERNAL_FAILURE")
        ELSE IF kind = 0
        THEN (IF \E i \in 1..8 : bytes[i] # 0 THEN Err("INVALID_FIELD_VALUE")
              ELSE Ok(Null))
        ELSE IF kind # 1 THEN Err("INVALID_FIELD_VALUE")
        ELSE IF padded THEN Err("INVALID_FIELD_VALUE")
        ELSE Finite(decodeValues(dtype, valueBytes, littleEndian))
\* normalizeCompression that does not ask the runtime
normalizeCompressionUnasked(compression, streams) ==
    LET mode == IF compression = "undefined" THEN "none" ELSE compression
    IN  IF mode \notin DOMAIN COMPRESSION_TO_CODE THEN Err("INVALID_FIELD_VALUE")
        ELSE Ok(mode)
normalizeCompression(compression, streams) ==
    LET mode == IF compression = "undefined" THEN "none" ELSE compression
    IN  IF mode \notin DOMAIN COMPRESSION_TO_CODE THEN Err("INVALID_FIELD_VALUE")
        ELSE IF mode # "none" /\ ~isCompressionModeSupported(mode, streams)
        THEN Err("UNSUPPORTED_COMPRESSION")
        ELSE Ok(mode)
\* validateTileIdForMeshKind that takes every id under every mesh kind
validateTileIdForMeshKindAny(tileId, meshKind) == Ok(tileId)
validateTileIdForMeshKind(tileId, meshKind) ==
    IF meshKind = "xyz" THEN AssertValidXyzTileId(tileId) ELSE Ok(tileId)
makeTileHeader(fields, payloadBytes, compressedBytes, payloadCrc32, headerCrc32) ==
    [format_major |-> VERSION_MAJOR,
     tile_id |-> fields.tile_id.mag,
     mesh_kind |-> fields.mesh_kind,
     dtype |-> fields.dtype,
     endianness |-> fields.endianness,
     compression |-> IF fields.compression = "undefined" THEN "none"
                     ELSE fields.compression,
     dimensions |-> [rows |-> fields.rows, cols |-> fields.cols, bands |-> fields.bands],
     no_data |-> IF fields.no_data = Undefined THEN Null ELSE fields.no_data,
     payload |-> [compressed_bytes |-> Num(compressedBytes),
                  uncompressed_bytes |-> Num(payloadBytes)],
     checksum |-> [algorithm |-> "crc32",
                   payload_crc32 |-> ToHex(payloadCrc32),
                   header_crc32 |-> ToHex(headerCrc32)]]

\* setUint8 of a table entry: a key that is missing gives undefined, which
\* DataView stores as 0
TableByte(table, key) == IF key \in DOMAIN table THEN table[key] ELSE 0
\* Layout is the function once packDTypeEndian and encodeNoDataField have
\* returned, and Sealed the header with the checksum of its first 54 bytes
encodeFixedHeader(params) ==
    LET Sealed(out) == out \o crc32(Slice(out, 0, HEADER_CHECKSUM_INPUT_LENGTH))
        Layout(packed, noData) ==
            IF ~packed.ok THEN packed
            ELSE IF ~noData.ok THEN noData
            ELSE Ok(Sealed(MAGIC \o <<VERSION_MAJOR>>
                             \o writeU64LE(params.tileId)
                             \o <<TableByte(MESH_KIND_TO_CODE, params.meshKind)>>
                             \o <<packed.value>>
                             \o <<TableByte(COMPRESSION_TO_CODE, params.compression)>>
                             \o Reverse(WriteInt(params.rows, 4))
                             \o Reverse(WriteInt(params.cols, 4))
                             \o WriteInt(params.bands, 1)
                             \o <<noData.value.kind>> \o noData.value.bytes
                             \o writeU64LE(params.uncompressedPayloadLength)
                             \o writeU64LE(params.compressedPayloadLength)
                             \o params.payloadCrc32))
    IN  Layout(packDTypeEndian(params.dtype, params.endianness),
               encodeNoDataField(params.noData, params.dtype,
                                 params.endianness = "little"))

\* inspectTile without the comparison of the length of the buffer with the
\* stored payload length
inspectTileUnmeasured(bytes) ==
    LET formatMajor == bytes[OFFSET_FORMAT_MAJOR + 1]
        headerBytes == Slice(bytes, 0, FIXED_HEADER_LENGTH)
        headerCrc32 == Slice(bytes, HEADER_CHECKSUM_OFFSET, HEADER_CHECKSUM_OFFSET + 4)
        tileId == readU64LE(bytes, OFFSET_TILE_ID)
        meshKind == parseEnum(bytes[OFFSET_MESH_KIND + 1], CODE_TO_MESH_KIND)
        validId == validateTileIdForMeshKind(tileId, meshKind.value)
        unpacked == unpackDTypeEndian(bytes[OFFSET_DTYPE_ENDIAN + 1])
        dtype == unpacked.value.dtype
        endianness == unpacked.value.endianness
        compression == parseEnum(bytes[OFFSET_COMPRESSION + 1], CODE_TO_COMPRESSION)
        rows == ReadUint(Reverse(Slice(bytes, OFFSET_ROWS, OFFSET_ROWS + 4)))
        cols == ReadUint(Reverse(Slice(bytes, OFFSET_COLS, OFFSET_COLS + 4)))
        bands == ReadUint(<<bytes[OFFSET_BANDS + 1]>>)
        noDataKind == bytes[OFFSET_NO_DATA_KIND + 1]
        noDataValueBytes == Slice(bytes, OFFSET_NO_DATA_VALUE, OFFSET_NO_DATA_VALUE + 8)
        uncompressedPayloadLengthU64 ==
            readU64LE(bytes, OFFSET_UNCOMPRESSED_PAYLOAD_LENGTH)
        compressedPayloadLengthU64 ==
            readU64LE(bytes, OFFSET_COMPRESSED_PAYLOAD_LENGTH)
        payloadCrc32 == Slice(bytes, OFFSET_PAYLOAD_CHECKSUM, OFFSET_PAYLOAD_CHECKSUM + 4)
        compressedPayloadLength == u64ToSafeNumber(compressedPayloadLengthU64)
        uncompressedPayloadLength == u64ToSafeNumber(uncompressedPayloadLengthU64)
        Returned(header) ==
            Ok([header |-> header,
                header_length |-> FIXED_HEADER_LENGTH,
                payload_offset |-> FIXED_HEADER_LENGTH,
                payload_length |-> compressedPayloadLength.value,
                header_crc32 |-> header.checksum.header_crc32])
        \* from the return of decodeNoDataField on
        Lengths(noData) ==
            IF ~noData.ok THEN noData
            ELSE IF ~compressedPayloadLength.ok THEN compressedPayloadLength
            ELSE IF ~uncompressedPayloadLength.ok THEN uncompressedPayloadLength
            ELSE Returned(
                   [format_major |-> formatMajor,
                    tile_id |-> tileId,
                    mesh_kind |-> meshKind.value,
                    dtype |-> dtype,
                    endianness |-> endianness,
                    compression |-> compression.value,
                    dimensions |-> [rows |-> rows, cols |-> cols, bands |-> bands],
                    no_data |-> noData.value,
                    payload |-> [compressed_bytes |-> compressedPayloadLength.value,
                                 uncompressed_bytes |-> uncompressedPayloadLength.value],
                    checksum |-> [algorithm |-> "crc32",
                                  payload_crc32 |-> ToHex(payloadCrc32),
                                  header_crc32 |-> ToHex(headerCrc32)]])
    IN  IF Len(bytes) < FIXED_HEADER_LENGTH THEN Err("INVALID_HEADER_LENGTH")
        ELSE IF Slice(bytes, 0, 4) # MAGIC THEN Err("INVALID_MAGIC")
        ELSE IF formatMajor # VERSION_MAJOR THEN Err("UNSUPPORTED_VERSION")
        ELSE IF ~verifyHeaderChecksum(headerBytes, headerCrc32)
        THEN Err("HEADER_CHECKSUM_MISMATCH")
        ELSE IF ~meshKind.ok THEN meshKind
        ELSE IF ~validId.ok THEN validId
        ELSE IF ~unpacked.ok THEN unpacked
        ELSE IF ~compression.ok THEN compression
        ELSE IF IsZero(rows) \/ IsZero(cols) \/ IsZero(bands)
        THEN Err("INVALID_FIELD_VALUE")
        ELSE Lengths(decodeNoDataField(noDataKind, noDataValueBytes, dtype,
                                       endianness = "little"))
\* inspectTile that also checks the CRC of an uncompressed payload
inspectTileVerifying(bytes) ==
    LET formatMajor == bytes[OFFSET_FORMAT_MAJOR + 1]
        headerBytes == Slice(bytes, 0, FIXED_HEADER_LENGTH)
        headerCrc32 == Slice(bytes, HEADER_CHECKSUM_OFFSET, HEADER_CHECKSUM_OFFSET + 4)
        tileId == readU64LE(bytes, OFFSET_TILE_ID)
        meshKind == parseEnum(bytes[OFFSET_MESH_KIND + 1], CODE_TO_MESH_KIND)
        validId == validateTileIdForMeshKind(tileId, meshKind.value)
        unpacked == unpackDTypeEndian(bytes[OFFSET_DTYPE_ENDIAN + 1])
        dtype == unpacked.value.dtype
        endianness == unpacked.value.endianness
        compression == parseEnum(bytes[OFFSET_COMPRESSION + 1], CODE_TO_COMPRESSION)
        rows == ReadUint(Reverse(Slice(bytes, OFFSET_ROWS, OFFSET_ROWS + 4)))
        cols == ReadUint(Reverse(Slice(bytes, OFFSET_COLS, OFFSET_COLS + 4)))
        bands == ReadUint(<<bytes[OFFSET_BANDS + 1]>>)
        noDataKind == bytes[OFFSET_NO_DATA_KIND + 1]
        noDataValueBytes == Slice(bytes, OFFSET_NO_DATA_VALUE, OFFSET_NO_DATA_VALUE + 8)
        uncompressedPayloadLengthU64 ==
            readU64LE(bytes, OFFSET_UNCOMPRESSED_PAYLOAD_LENGTH)
        compressedPayloadLengthU64 ==
            readU64LE(bytes, OFFSET_COMPRESSED_PAYLOAD_LENGTH)
        payloadCrc32 == Slice(bytes, OFFSET_PAYLOAD_CHECKSUM, OFFSET_PAYLOAD_CHECKSUM + 4)
        compressedPayloadLength == u64ToSafeNumber(compressedPayloadLengthU64)
        uncompressedPayloadLength == u64ToSafeNumber(uncompressedPayloadLengthU64)
        Returned(header) ==
            Ok([header |-> header,
                header_length |-> FIXED_HEADER_LENGTH,
                payload_offset |-> FIXED_HEADER_LENGTH,
                payload_length |-> compressedPayloadLength.value,
                header_crc32 |-> header.checksum.header_crc32])
        \* from the return of decodeNoDataField on
        Lengths(noData) ==
            IF ~noData.ok THEN noData
            ELSE IF ~compressedPayloadLength.ok THEN compressedPayloadLength
            ELSE IF ~uncompressedPayloadLength.ok THEN uncompressedPayloadLength
            \* bytes.length < 58 + compressedPayloadLength, the 58 moved to the
            \* left where the subtraction is exact
            ELSE IF NumLess(Num(Len(bytes) - FIXED_HEADER_LENGTH),
                            compressedPayloadLength.value)
            THEN Err("INVALID_PAYLOAD_LENGTH")
            ELSE IF /\ compression.value = "none"
                    /\ crc32(Slice(bytes, FIXED_HEADER_LENGTH, Len(bytes))) # payloadCrc32
            THEN Err("PAYLOAD_CHECKSUM_MISMATCH")
            ELSE Returned(
                   [format_major |-> formatMajor,
                    tile_id |-> tileId,
                    mesh_kind |-> meshKind.value,
                    dtype |-> dtype,
                    endianness |-> endianness,
                    compression |-> compression.value,
                    dimensions |-> [rows |-> rows, cols |-> cols, bands |-> bands],
                    no_data |-> noData.value,
                    payload |-> [compressed_bytes |-> compressedPayloadLength.value,
                                 uncompressed_bytes |-> uncompressedPayloadLength.value],
                    checksum |-> [algorithm |-> "crc32",
                                  payload_crc32 |-> ToHex(payloadCrc32),
                                  header_crc32 |-> ToHex(headerCrc32)]])
    IN  IF Len(bytes) < FIXED_HEADER_LENGTH THEN Err("INVALID_HEADER_LENGTH")
        ELSE IF Slice(bytes, 0, 4) # MAGIC THEN Err("INVALID_MAGIC")
        ELSE IF formatMajor # VERSION_MAJOR THEN Err("UNSUPPORTED_VERSION")
        ELSE IF ~verifyHeaderChecksum(headerBytes, headerCrc32)
        THEN Err("HEADER_CHECKSUM_MISMATCH")
        ELSE IF ~meshKind.ok THEN meshKind
        ELSE IF ~validId.ok THEN validId
        ELSE IF ~unpacked.ok THEN unpacked
        ELSE IF ~compression.ok THEN compression
        ELSE IF IsZero(rows) \/ IsZero(cols) \/ IsZero(bands)
        THEN Err("INVALID_FIELD_VALUE")
        ELSE Lengths(decodeNoDataField(noDataKind, noDataValueBytes, dtype,
                                       endianness = "little"))
\* inspectTile: the first check that fails decides the error
inspectTile(bytes) ==
    LET formatMajor == bytes[OFFSET_FORMAT_MAJOR + 1]
        headerBytes == Slice(bytes, 0, FIXED_HEADER_LENGTH)
        headerCrc32 == Slice(bytes, HEADER_CHECKSUM_OFFSET, HEADER_CHECKSUM_OFFSET + 4)
        tileId == readU64LE(bytes, OFFSET_TILE_ID)
        meshKind == parseEnum(bytes[OFFSET_MESH_KIND + 1], CODE_TO_MESH_KIND)
        validId == validateTileIdForMeshKind(tileId, meshKind.value)
        unpacked == unpackDTypeEndian(bytes[OFFSET_DTYPE_ENDIAN + 1])
        dtype == unpacked.value.dtype
        endianness == unpacked.value.endianness
        compression == parseEnum(bytes[OFFSET_COMPRESSION + 1], CODE_TO_COMPRESSION)
        rows == ReadUint(Reverse(Slice(bytes, OFFSET_ROWS, OFFSET_ROWS + 4)))
        cols == ReadUint(Reverse(Slice(bytes, OFFSET_COLS, OFFSET_COLS + 4)))
        bands == ReadUint(<<bytes[OFFSET_BANDS + 1]>>)
        noDataKind == bytes[OFFSET_NO_DATA_KIND + 1]
        noDataValueBytes == Slice(bytes, OFFSET_NO_DATA_VALUE, OFFSET_NO_DATA_VALUE + 8)
        uncompressedPayloadLengthU64 ==
            readU64LE(bytes, OFFSET_UNCOMPRESSED_PAYLOAD_LENGTH)
        compressedPayloadLengthU64 ==
            readU64LE(bytes, OFFSET_COMPRESSED_PAYLOAD_LENGTH)
        payloadCrc32 == Slice(bytes, OFFSET_PAYLOAD_CHECKSUM, OFFSET_PAYLOAD_CHECKSUM + 4)
        compressedPayloadLength == u64ToSafeNumber(compressedPayloadLengthU64)
        uncompressedPayloadLength == u64ToSafeNumber(uncompressedPayloadLengthU64)
        Returned(header) ==
            Ok([header |-> header,
                header_length |-> FIXED_HEADER_LENGTH,
                payload_offset |-> FIXED_HEADER_LENGTH,
                payload_length |-> compressedPayloadLength.value,
                header_crc32 |-> header.checksum.header_crc32])
        \* from the return of decodeNoDataField on
        Lengths(noData) ==
            IF ~noData.ok THEN noData
            ELSE IF ~compressedPayloadLength.ok THEN compressedPayloadLength
            ELSE IF ~uncompressedPayloadLength.ok THEN uncompressedPayloadLength
            \* bytes.length < 58 + compressedPayloadLength, the 58 moved to the
            \* left where the subtraction is exact
            ELSE IF NumLess(Num(Len(bytes) - FIXED_HEADER_LENGTH),
                            compressedPayloadLength.value)
            THEN Err("INVALID_PAYLOAD_LENGTH")
            ELSE Returned(
                   [format_major |-> formatMajor,
                    tile_id |-> tileId,
                    mesh_kind |-> meshKind.value,
                    dtype |-> dtype,
                    endianness |-> endianness,
                    compression |-> compression.value,
                    dimensions |-> [rows |-> rows, cols |-> cols, bands |-> bands],
                    no_data |-> noData.value,
                    payload |-> [compressed_bytes |-> compressedPayloadLength.value,
                                 uncompressed_bytes |-> uncompressedPayloadLength.value],
                    checksum |-> [algorithm |-> "crc32",
                                  payload_crc32 |-> ToHex(payloadCrc32),
                                  header_crc32 |-> ToHex(headerCrc32)]])
    IN  IF Len(bytes) < FIXED_HEADER_LENGTH THEN Err("INVALID_HEADER_LENGTH")
        ELSE IF Slice(bytes, 0, 4) # MAGIC THEN Err("INVALID_MAGIC")
        ELSE IF formatMajor # VERSION_MAJOR THEN Err("UNSUPPORTED_VERSION")
        ELSE IF ~verifyHeaderChecksum(headerBytes, headerCrc32)
        THEN Err("HEADER_CHECKSUM_MISMATCH")
        ELSE IF ~meshKind.ok THEN meshKind
        ELSE IF ~validId.ok THEN validId
        ELSE IF ~unpacked.ok THEN unpacked
        ELSE IF ~compression.ok THEN compression
        ELSE IF IsZero(rows) \/ IsZero(cols) \/ IsZero(bands)
        THEN Err("INVALID_FIELD_VALUE")
        ELSE Lengths(decodeNoDataField(noDataKind, noDataValueBytes, dtype,
                                       endianness = "little"))

\* encodeTile up to its await, with the tile id checked against the mesh kind
\* after the dtype and the byte order
encodeTileBeginListed(given, streams) ==
    LET tileId == normalizeTileId(given.tile_id)
        validId == validateTileIdForMeshKind(tileId.value, given.mesh_kind)
        rows == normalizeDimension(given.rows)
        cols == normalizeDimension(given.cols)
        bands == normalizeBands(given.bands)
        compression == normalizeCompression(given.compression, streams)
        noData == validateNoData(given.no_data)
        dimensions == [rows |-> rows.value, cols |-> cols.value, bands |-> bands.value]
        littleEndian == given.endianness = "little"
        \* from the return of encodeValues to the call of compressPayload
        Packed(elementCount, rawPayload) ==
            IF ~rawPayload.ok THEN rawPayload
            ELSE IF Len(rawPayload.value)
                      # elementCount.value * byteLengthForDType(given.dtype)
            THEN Err("INVALID_PAYLOAD_LENGTH")
            ELSE Ok([set |-> TRUE,
                     tileId |-> tileId.value,
                     rows |-> rows.value, cols |-> cols.value, bands |-> bands.value,
                     compression |-> compression.value,
                     noData |-> noData.value,
                     rawPayload |-> rawPayload.value,
                     \* the promise of compressPayload(compression, rawPayload)
                     compressedPayload |->
                         compressPayload(compression.value, rawPayload.value, streams)])
        \* from the return of totalSamples on
        Counted(elementCount) ==
            IF ~elementCount.ok THEN elementCount
            ELSE Packed(elementCount,
                        encodeValues(given.dtype, given.data, elementCount.value,
                                     littleEndian))
    IN  IF ~tileId.ok THEN tileId
        ELSE IF given.mesh_kind \notin DOMAIN MESH_KIND_TO_CODE
        THEN Err("MISSING_REQUIRED_FIELD")
        ELSE IF given.dtype \notin DOMAIN DTYPE_TO_CODE
        THEN Err("MISSING_REQUIRED_FIELD")
        ELSE IF given.endianness # "little" /\ given.endianness # "big"
        THEN Err("MISSING_REQUIRED_FIELD")
        ELSE IF ~validId.ok THEN validId
        ELSE IF ~rows.ok THEN rows
        ELSE IF ~cols.ok THEN cols
        ELSE IF ~bands.ok THEN bands
        ELSE IF ~compression.ok THEN compression
        ELSE IF ~noData.ok THEN noData
        ELSE Counted(totalSamples(dimensions))
\* encodeTile up to its await: the error thrown, or the locals that live on
encodeTileBegin(given, streams) ==
    LET tileId == normalizeTileId(given.tile_id)
        validId == validateTileIdForMeshKind(tileId.value, given.mesh_kind)
        rows == normalizeDimension(given.rows)
        cols == normalizeDimension(given.cols)
        bands == normalizeBands(given.bands)
        compression == normalizeCompression(given.compression, streams)
        noData == validateNoData(given.no_data)
        dimensions == [rows |-> rows.value, cols |-> cols.value, bands |-> bands.value]
        littleEndian == given.endianness = "little"
        \* from the return of encodeValues to the call of compressPayload
        Packed(elementCount, rawPayload) ==
            IF ~rawPayload.ok THEN rawPayload
            ELSE IF Len(rawPayload.value)
                      # elementCount.value * byteLengthForDType(given.dtype)
            THEN Err("INVALID_PAYLOAD_LENGTH")
            ELSE Ok([set |-> TRUE,
                     tileId |-> tileId.value,
                     rows |-> rows.value, cols |-> cols.value, bands |-> bands.value,
                     compression |-> compression.value,
                     noData |-> noData.value,
                     rawPayload |-> rawPayload.value,
                     \* the promise of compressPayload(compression, rawPayload)
                     compressedPayload |->
                         compressPayload(compression.value, rawPayload.value, streams)])
        \* from the return of totalSamples on
        Counted(elementCount) ==
            IF ~elementCount.ok THEN elementCount
            ELSE Packed(elementCount,
                        encodeValues(given.dtype, given.data, elementCount.value,
                                     littleEndian))
    IN  IF ~tileId.ok THEN tileId
        ELSE IF given.mesh_kind \notin DOMAIN MESH_KIND_TO_CODE
        THEN Err("MISSING_REQUIRED_FIELD")
        ELSE IF ~validId.ok THEN validId
        ELSE IF given.dtype \notin DOMAIN DTYPE_TO_CODE
        THEN Err("MISSING_REQUIRED_FIELD")
        ELSE IF given.endianness # "little" /\ given.endianness # "big"
        THEN Err("MISSING_REQUIRED_FIELD")
        ELSE IF ~rows.ok THEN rows
        ELSE IF ~cols.ok THEN cols
        ELSE IF ~bands.ok THEN bands
        ELSE IF ~compression.ok THEN compression
        ELSE IF ~noData.ok THEN noData
        ELSE Counted(totalSamples(dimensions))
\* encodeTile from its await on, with the payload checksum taken of the
\* stored bytes
encodeTileResumeStoredCrc(given, locals) ==
    LET compressedPayload == locals.compressedPayload
        payloadCrc32 == crc32(compressedPayload.value)
        \* from the return of encodeFixedHeader on
        Assembled(headerBytes) ==
            IF ~headerBytes.ok THEN headerBytes
            ELSE Ok([bytes |-> headerBytes.value \o compressedPayload.value,
                     header |->
                        makeTileHeader(
                            [given EXCEPT
                                !.tile_id = [type |-> "bigint", neg |-> FALSE,
                                             integral |-> TRUE, mag |-> locals.tileId],
                                !.compression = locals.compression,
                                !.no_data = locals.noData],
                            Len(locals.rawPayload), Len(compressedPayload.value),
                            payloadCrc32,
                            Slice(headerBytes.value, HEADER_CHECKSUM_OFFSET,
                                  HEADER_CHECKSUM_OFFSET + 4))])
    IN  IF ~compressedPayload.ok THEN compressedPayload
        ELSE Assembled(
               encodeFixedHeader(
                [tileId |-> locals.tileId,
                 meshKind |-> given.mesh_kind,
                 dtype |-> given.dtype,
                 endianness |-> given.endianness,
                 compression |-> locals.compression,
                 rows |-> locals.rows, cols |-> locals.cols, bands |-> locals.bands,
                 noData |-> locals.noData,
                 uncompressedPayloadLength |-> BigInt(Len(locals.rawPayload)),
                 compressedPayloadLength |-> BigInt(Len(compressedPayload.value)),
                 payloadCrc32 |-> payloadCrc32]))
\* encodeTile from its await on: it reads mesh_kind, dtype, endianness and
\* the fields spread into makeTileHeader from the input object again
encodeTileResume(given, locals) ==
    LET compressedPayload == locals.compressedPayload
        payloadCrc32 == crc32(locals.rawPayload)
        \* from the return of encodeFixedHeader on
        Assembled(headerBytes) ==
            IF ~headerBytes.ok THEN headerBytes
            ELSE Ok([bytes |-> headerBytes.value \o compressedPayload.value,
                     header |->
                        makeTileHeader(
                            [given EXCEPT
                                !.tile_id = [type |-> "bigint", neg |-> FALSE,
                                             integral |-> TRUE, mag |-> locals.tileId],
                                !.compression = locals.compression,
                                !.no_data = locals.noData],
                            Len(locals.rawPayload), Len(compressedPayload.value),
                            payloadCrc32,
                            Slice(headerBytes.value, HEADER_CHECKSUM_OFFSET,
                                  HEADER_CHECKSUM_OFFSET + 4))])
    IN  IF ~compressedPayload.ok THEN compressedPayload
        ELSE Assembled(
               encodeFixedHeader(
                [tileId |-> locals.tileId,
                 meshKind |-> given.mesh_kind,
                 dtype |-> given.dtype,
                 endianness |-> given.endianness,
                 compression |-> locals.compression,
                 rows |-> locals.rows, cols |-> locals.cols, bands |-> locals.bands,
                 noData |-> locals.noData,
                 uncompressedPayloadLength |-> BigInt(Len(locals.rawPayload)),
                 compressedPayloadLength |-> BigInt(Len(compressedPayload.value)),
                 payloadCrc32 |-> payloadCrc32]))
\* what encodeTile returns for an input, its await over
EncodedTile(given, streams) ==
    LET Resumed(begun) ==
            IF ~begun.ok THEN begun ELSE encodeTileResume(given, begun.value)
    IN  Resumed(encodeTileBegin(given, streams))

(***************************************************************************)
(* The callers of the tile-id helpers.                                     *)
(***************************************************************************)
\* coordinates tried at each zoom: the MaxLowCoord + 1 lowest and highest of
\* [0, 2^zoom), and the first value outside on either side
MaxLowCoord == 2
CoordSamples(zoom) ==
    LET top == IF zoom < 0 \/ zoom > MAX_ZOOM + 1 THEN 1 ELSE 2 ^ zoom
    IN  {-1, top} \cup (0..MaxLowCoord) \cup {top - 1 - k : k \in 0..MaxLowCoord}
XyzTiles ==
    UNION {{[zoom |-> z, x |-> x, y |-> y] :
               x \in CoordSamples(z), y \in CoordSamples(z)} :
           z \in (-1)..(MAX_ZOOM + 1)}

\* tile ids handed to the decoder: every zoom field, the quadkey empty or full
\* for that zoom, and at most one further bit of the low 58 set
GivenId(zoom, full, extra) ==
    [i \in BitIndex |->
        IF i >= ZOOM_SHIFT THEN NatBit(zoom, i - ZOOM_SHIFT)
        ELSE IF (full /\ i < 2 * zoom) \/ i = extra THEN 1 ELSE 0]
GivenIds(zoom) ==
    {GivenId(zoom, full, extra) : full \in BOOLEAN, extra \in (-1)..(QUADKEY_BITS - 1)}

NoTile == [zoom |-> 0, x |-> 0, y |-> 0]
NoInput == [tile_id |-> [type |-> "bigint", neg |-> FALSE, integral |-> TRUE, mag |-> BigZero]]
NoLocals == [set |-> FALSE]

XyzIdle ==
    /\ xyzPc = "start"
    /\ xyzTile = NoTile
    /\ xyzGiven = BigZero
    /\ xyzEnc = None
    /\ xyzDec = None
    /\ xyzAssert = None
\* at most MaxCalls calls of encodeTile and decodeTile are made side by side
MaxCalls == 2
Calls == 1..MaxCalls
NoCall == [kind |-> "none", pc |-> "idle", arg |-> <<>>, locals |-> NoLocals,
           result |-> None, inFlight |-> {}]
\* the keys of the Maps, and the calls made on one Map in a run
LruKeys == {"a", "b", "c"}
NoLruCall == [op |-> "none", key |-> "a", value |-> <<>>, returned |-> <<>>, before |-> <<>>,
              usedBefore |-> [k \in LruKeys |-> 0], at |-> 0]
LruIdle ==
    /\ lruCache = <<>>
    /\ lruMax = 0
    /\ lruUsed = [k \in LruKeys |-> 0]
    /\ lruLast = NoLruCall
\* the requests of a run, the request URLs they are made with, and the mesh
\* tile URL that the candidates of a request URL resolve to (a static
\* template: every tile resolves to the one mesh tile)
MaxRequests == 2
Requests == 1..MaxRequests
RequestUrls == {"u1", "u2"}
MeshUrls == {"m"}
NoRequest == [url |-> "u1", pc |-> "idle", aborted |-> FALSE, role |-> "none",
              joined |-> 0, load |-> "none", bytes |-> <<>>, fetch |-> 0,
              held |-> "none", pending |-> {}, result |-> None]
ProtocolIdle ==
    /\ cacheConfig = [vectorTilesMaxEntries |-> 0, meshFeaturesMaxEntries |-> 0]
    /\ requests = [r \in Requests |-> NoRequest]
    /\ vectorTileCache = <<>>
    /\ vectorTileInFlight = [u \in RequestUrls |-> 0]
    /\ meshFeaturesCache = <<>>
    /\ meshFeaturesInFlight = [m \in MeshUrls |-> 0]
    /\ fetches = <<>>
NoCsv == [values |-> <<>>, rows |-> 0, cols |-> 0, bands |-> 0]
ApiIdle == csvGiven = NoCsv /\ csvResult = None
\* nothing has been called yet; the runtime has the streams or has not
Init ==
    /\ XyzIdle
    /\ hasStreams \in BOOLEAN
    /\ input = NoInput
    /\ encPc = "idle"
    /\ encLocals = NoLocals
    /\ encResult = None
    /\ file = <<>>
    /\ origin = [kind |-> "none"]
    /\ insResult = None
    /\ decStage = "IDLE"
    /\ decLocals = NoLocals
    /\ decResult = None
    /\ ApiIdle
    /\ calls = [c \in Calls |-> NoCall]
    /\ LruIdle
    /\ ProtocolIdle

\* encodeXyzTileId(tile)
XyzEncode ==
    /\ xyzPc = "start"
    /\ \E tile \in XyzTiles :
          /\ xyzTile' = tile
          /\ xyzEnc' = EncodeXyzTileId(tile)
    /\ xyzPc' = "encoded"
    /\ UNCHANGED <<xyzGiven, xyzDec, xyzAssert>>
    /\ UNCHANGED <<codecVars, appVars>>

\* decodeXyzTileId and assertValidXyzTileId on the id just encoded
XyzDecodeEncoded ==
    /\ xyzPc = "encoded"
    /\ xyzEnc.ok
    /\ xyzGiven' = xyzEnc.value
    /\ xyzDec' = DecodeXyzTileId(xyzEnc.value)
    /\ xyzAssert' = AssertValidXyzTileId(xyzEnc.value)
    /\ xyzPc' = "decoded"
    /\ UNCHANGED <<xyzTile, xyzEnc>>
    /\ UNCHANGED <<codecVars, appVars>>

\* decodeXyzTileId and assertValidXyzTileId on an id from elsewhere
XyzDecodeGiven ==
    /\ xyzPc = "start"
    /\ \E zoom \in 0..(2 ^ ZOOM_BITS - 1) : \E id \in GivenIds(zoom) :
          /\ xyzGiven' = id
          /\ xyzDec' = DecodeXyzTileId(id)
          /\ xyzAssert' = AssertValidXyzTileId(id)
    /\ xyzPc' = "given"
    /\ UNCHANGED <<xyzTile, xyzEnc>>
    /\ UNCHANGED <<codecVars, appVars>>

XyzNext == XyzEncode \/ XyzDecodeEncoded \/ XyzDecodeGiven

SpecXyz == Init /\ [][XyzNext]_vars

(***************************************************************************)
(* encodeTile, inspectTile and decodeTile as calls.  encodeTile is         *)
(* suspended once, at its await of compressPayload; decodeTile advances    *)
(* by one stage at a time and is suspended at its await of                 *)
(* decompressPayload.  inspectTile and decodeTile keep nothing between     *)
(* calls, so a buffer gets one call of either.                             *)
(***************************************************************************)
NotCalled(result) == ~result.ok /\ result.code = "NOT_CALLED"
FromEncoder == [kind |-> "encoded", offset |-> 0, old |-> 0, patches |-> {}]

\* encodeTile(input) is called and runs to its await, or throws before it
EncodeBegin(given) ==
    /\ encPc = "idle"
    /\ input' = given
    /\ \E begun \in {encodeTileBegin(given, hasStreams)} :
           IF begun.ok
           THEN encPc' = "awaiting" /\ encLocals' = begun.value /\ encResult' = encResult
           ELSE encPc' = "done" /\ encLocals' = encLocals /\ encResult' = begun
    /\ UNCHANGED <<hasStreams, file, origin>>
    /\ UNCHANGED decVars
    /\ UNCHANGED <<xyzVars, appVars>>

\* the await of encodeTile is over: the rest of it runs, and the bytes it
\* returns are the buffer at hand
EncodeResume ==
    /\ encPc = "awaiting"
    /\ \E result \in {encodeTileResume(input, encLocals)} :
           /\ encResult' = result
           /\ file' = IF result.ok THEN result.value.bytes ELSE file
           /\ origin' = IF result.ok THEN FromEncoder ELSE origin
    /\ encPc' = "done"
    /\ UNCHANGED <<hasStreams, input, encLocals>>
    /\ UNCHANGED decVars
    /\ UNCHANGED <<xyzVars, appVars>>

\* inspectTile(file)
Inspect ==
    /\ origin.kind # "none"
    /\ NotCalled(insResult)
    /\ decStage = "IDLE"
    /\ insResult' = inspectTile(file)
    /\ UNCHANGED <<hasStreams, file, origin, decStage, decLocals, decResult>>
    /\ UNCHANGED encVars
    /\ UNCHANGED <<xyzVars, appVars>>

DecodeFrame == <<hasStreams, file, origin, insResult>>
\* a failure that starts the call again instead of ending it
DecodeFailRetry(error) ==
    /\ decStage' = "NEW"
    /\ decResult' = error
    /\ UNCHANGED decLocals
DecodeFail(error) ==
    /\ decStage' = "FAILED"
    /\ decResult' = error
    /\ UNCHANGED decLocals

\* decodeTile(file) is called
DecodeStart ==
    /\ origin.kind # "none"
    /\ NotCalled(insResult)
    /\ decStage = "IDLE"
    /\ decStage' = "NEW"
    /\ UNCHANGED <<decLocals, decResult>>
    /\ UNCHANGED DecodeFrame
    /\ UNCHANGED encVars
    /\ UNCHANGED <<xyzVars, appVars>>

\* const info = inspectTile(bytes)
DecodeInspect ==
    /\ decStage = "NEW"
    /\ \E info \in {inspectTile(file)} :
           IF ~info.ok THEN DecodeFail(info)
           ELSE /\ decStage' = "HEADER_PARSED"
                /\ decLocals' = [set |-> TRUE, info |-> info.value]
                /\ UNCHANGED decResult
    /\ UNCHANGED DecodeFrame
    /\ UNCHANGED encVars
    /\ UNCHANGED <<xyzVars, appVars>>

\* the check of the compression mode, the slice of the payload, and the call
\* of decompressPayload
DecodeLoadPayload ==
    /\ decStage = "HEADER_PARSED"
    /\ LET info == decLocals.info
           header == info.header
           length == ToInt(info.payload_length)
           payload == Slice(file, info.payload_offset, info.payload_offset + length)
       IN  IF /\ header.compression # "none"
              /\ ~isCompressionModeSupported(header.compression, hasStreams)
           THEN DecodeFail(Err("UNSUPPORTED_COMPRESSION"))
           ELSE IF Len(payload) # length
           THEN DecodeFail(Err("INVALID_PAYLOAD_LENGTH"))
           ELSE /\ decStage' = "PAYLOAD_LOADED"
                /\ decLocals' =
                      [set |-> TRUE, info |-> info, payload |-> payload,
                       decompressed |->
                           decompressPayload(header.compression, payload, hasStreams)]
                /\ UNCHANGED decResult
    /\ UNCHANGED DecodeFrame
    /\ UNCHANGED encVars
    /\ UNCHANGED <<xyzVars, appVars>>

\* DecodeDecompress without the comparison of the decompressed size with the
\* header's uncompressed length
DecodeDecompressUnsized ==
    /\ decStage = "PAYLOAD_LOADED"
    /\ LET decompressed == decLocals.decompressed
       IN  IF ~decompressed.ok THEN DecodeFail(decompressed)
           ELSE /\ decStage' = "DECOMPRESSED"
                /\ UNCHANGED <<decLocals, decResult>>
    /\ UNCHANGED DecodeFrame
    /\ UNCHANGED encVars
    /\ UNCHANGED <<xyzVars, appVars>>
\* the await of decodeTile is over, and the decompressed size is compared
DecodeDecompress ==
    /\ decStage = "PAYLOAD_LOADED"
    /\ LET header == decLocals.info.header
           decompressed == decLocals.decompressed
       IN  IF ~decompressed.ok THEN DecodeFail(decompressed)
           ELSE IF Num(Len(decompressed.value)) # header.payload.uncompressed_bytes
           THEN DecodeFail(Err("INVALID_PAYLOAD_LENGTH"))
           ELSE /\ decStage' = "DECOMPRESSED"
                /\ UNCHANGED <<decLocals, decResult>>
    /\ UNCHANGED DecodeFrame
    /\ UNCHANGED encVars
    /\ UNCHANGED <<xyzVars, appVars>>

\* the comparison of the payload checksums that accepts every payload
PayloadCrcAccepted(decompressed, header) == TRUE
\* the checksum of the decompressed payload against the header's
PayloadCrcMatches(decompressed, header) ==
    crc32(decompressed) = FromHex(header.checksum.payload_crc32)
DecodeVerifyCrc ==
    /\ decStage = "DECOMPRESSED"
    /\ IF ~PayloadCrcMatches(decLocals.decompressed.value, decLocals.info.header)
       THEN DecodeFail(Err("PAYLOAD_CHECKSUM_MISMATCH"))
       ELSE /\ decStage' = "CRC_VERIFIED"
            /\ UNCHANGED <<decLocals, decResult>>
    /\ UNCHANGED DecodeFrame
    /\ UNCHANGED encVars
    /\ UNCHANGED <<xyzVars, appVars>>

\* DecodeSamples without the comparison of the payload length with the
\* sample count
DecodeSamplesUnsized ==
    /\ decStage = "CRC_VERIFIED"
    /\ LET header == decLocals.info.header
           decompressed == decLocals.decompressed.value
       IN  \E sampleCount \in {totalSamples(header.dimensions)},
              data \in {decodeValues(header.dtype, decompressed,
                                     header.endianness = "little")} :
           IF ~sampleCount.ok THEN DecodeFail(sampleCount)
           ELSE IF ~data.ok THEN DecodeFail(data)
           ELSE /\ decStage' = "SAMPLES_DECODED"
                /\ decResult' = Ok([header |-> header, data |-> data.value,
                                    payload |-> decompressed])
                /\ UNCHANGED decLocals
    /\ UNCHANGED DecodeFrame
    /\ UNCHANGED encVars
    /\ UNCHANGED <<xyzVars, appVars>>
\* the sample count, the expected byte length, and decodeValues
DecodeSamples ==
    /\ decStage = "CRC_VERIFIED"
    /\ LET header == decLocals.info.header
           decompressed == decLocals.decompressed.value
       IN  \E sampleCount \in {totalSamples(header.dimensions)},
              data \in {decodeValues(header.dtype, decompressed,
                                     header.endianness = "little")} :
           IF ~sampleCount.ok THEN DecodeFail(sampleCount)
           ELSE IF Len(decompressed)
                     # sampleCount.value * byteLengthForDType(header.dtype)
           THEN DecodeFail(Err("INVALID_PAYLOAD_LENGTH"))
           ELSE IF ~data.ok THEN DecodeFail(data)
           ELSE /\ decStage' = "SAMPLES_DECODED"
                /\ decResult' = Ok([header |-> header, data |-> data.value,
                                    payload |-> decompressed])
                /\ UNCHANGED decLocals
    /\ UNCHANGED DecodeFrame
    /\ UNCHANGED encVars
    /\ UNCHANGED <<xyzVars, appVars>>

Decode ==
    \/ DecodeStart \/ DecodeInspect \/ DecodeLoadPayload
    \/ DecodeDecompress \/ DecodeVerifyCrc \/ DecodeSamples

(***************************************************************************)
(* The inputs the calls are run with.                                      *)
(***************************************************************************)
MaxSamples == 2
HALF == <<63, 224, 0, 0, 0, 0, 0, 0>>
TENTH == <<63, 185, 153, 153, 153, 153, 153, 154>>
MINUS_ZERO == F64Pack(1, 0, 0, 0)
\* the largest binary32 value, (2 - 2^-23) * 2^127, and the smallest, 2^-149
FLOAT32_MAX == <<71, 239, 255, 255, 224, 0, 0, 0>>
FLOAT32_TINY == F64Pack(0, 1023 - 149, 0, 0)
\* values in the range of the dtype and at its ends, and values outside it,
\* with a fraction, or not finite
SampleValues(dtype) ==
    CASE dtype = "uint8" -> {ZERO, Num(18), Num(255), Num(256), Num(-1), HALF}
      [] dtype = "int8" -> {Num(-128), Num(18), Num(127), Num(128), Num(-129), HALF}
      [] dtype = "uint16" ->
            {MINUS_ZERO, Num(4660), Num(65535), Num(65536), Num(-1), HALF}
      [] dtype = "int16" ->
            {Num(-32768), Num(4660), Num(32767), Num(32768), Num(-32769), NAN}
      [] dtype = "uint32" ->
            {ZERO, Num(305419896), F64FromParts(0, 31, 2147483647),
             F64Pack(0, 1023 + 32, 0, 0), Num(-1), POSITIVE_INFINITY}
      [] dtype = "int32" ->
            {F64FromParts(1, 31, 0), Num(-305419896), Num(2147483647),
             F64FromParts(0, 31, 0), F64FromParts(1, 31, 1), HALF}
      [] dtype = "float32" ->
            {HALF, NAN, FLOAT32_MAX, FLOAT32_TINY, TENTH, POSITIVE_INFINITY}
      [] dtype = "float64" ->
            {TENTH, NAN, MINUS_ZERO, F64Pack(1, 2046, 268435455, 16777215),
             Num(-305419896), NEGATIVE_INFINITY}
\* the sequences of 1..n values of the dtype
RECURSIVE DataOf(_, _)
DataOf(dtype, n) ==
    IF n = 0 THEN {<<>>}
    ELSE {<<v>> \o rest : v \in SampleValues(dtype), rest \in DataOf(dtype, n - 1)}
Samples(dtype) == UNION {DataOf(dtype, n) : n \in 1..MaxSamples}
BigIntId(mag) == [type |-> "bigint", neg |-> FALSE, integral |-> TRUE, mag |-> mag]
\* the input of scenario S1 of the conformance suite
BaseInput ==
    [tile_id |-> BigIntId(BigInt(1001)), mesh_kind |-> "jis-x0410",
     dtype |-> "uint16", endianness |-> "little",
     rows |-> Num(2), cols |-> Num(2), bands |-> Num(1),
     compression |-> "undefined", no_data |-> Undefined,
     data |-> <<Num(1), Num(2), Num(3), Num(4)>>]
\* every dtype and byte order with one or more samples in one column
ValueInputs ==
    UNION {{[BaseInput EXCEPT !.dtype = dtype, !.endianness = endianness,
                              !.rows = Num(Len(data)), !.cols = Num(1),
                              !.data = data] :
              endianness \in {"little", "big"}, data \in Samples(dtype)} :
           dtype \in DTypes}
\* every dtype and byte order with an absent or a present no_data
NoDataInputs ==
    UNION {{[BaseInput EXCEPT !.dtype = dtype, !.endianness = endianness,
                              !.no_data = noData] :
              endianness \in {"little", "big"},
              noData \in {Undefined, Null} \cup SampleValues(dtype)} :
           dtype \in DTypes}
IdZooms == {0, 1, 3, MAX_ZOOM - 1, MAX_ZOOM, MAX_ZOOM + 1, 2 ^ ZOOM_BITS - 1}
IdSamples ==
    {BigInt(1001)} \cup
    UNION {{GivenId(zoom, full, extra) :
               full \in BOOLEAN,
               extra \in {-1, 0, 2 * zoom - 1, 2 * zoom, QUADKEY_BITS - 1}
                            \cap ((-1)..(QUADKEY_BITS - 1))} :
           zoom \in IdZooms}
TileIds ==
    {BigIntId(id) : id \in IdSamples} \cup
    {[type |-> "number", neg |-> FALSE, integral |-> TRUE, mag |-> BigInt(1001)],
     [type |-> "number", neg |-> FALSE, integral |-> FALSE, mag |-> BigInt(1001)],
     [type |-> "bigint", neg |-> TRUE, integral |-> TRUE, mag |-> BigInt(1)]}
\* every tile id under every mesh kind, one of them no mesh kind at all
IdInputs ==
    {[BaseInput EXCEPT !.tile_id = tileId, !.mesh_kind = meshKind] :
        tileId \in TileIds, meshKind \in {"jis-x0410", "xyz", "undefined"}}
Dimensions == {ZERO, Num(1), Num(2)}
\* dimensions, compression modes and numbers of values, matching or not
ShapeInputs ==
    {[BaseInput EXCEPT !.rows = rows, !.cols = cols, !.bands = bands,
                       !.compression = compression,
                       !.data = [i \in 1..count |-> Num(i)]] :
        rows \in Dimensions, cols \in Dimensions, bands \in Dimensions,
        compression \in {"undefined", "none", "deflate-raw", "gzip"},
        count \in {1, 2, 4, 8}}
RoundTripInputs == ValueInputs \cup NoDataInputs \cup IdInputs \cup ShapeInputs

RoundTripEncode == \E given \in RoundTripInputs : EncodeBegin(given)
Next == RoundTripEncode \/ EncodeResume \/ Inspect \/ Decode
Spec == Init /\ [][Next]_vars

(***************************************************************************)
(* Buffers that are not the encoder's own: a tile with one byte replaced,  *)
(* as the conformance suite does it, and a tile with header fields         *)
(* overwritten, its length changed, and its header checksum written again  *)
(* or left as it was.                                                      *)
(***************************************************************************)
Untouched == origin.kind = "encoded" /\ NotCalled(insResult) /\ decStage = "IDLE"

\* the byte is replaced by its exclusive or with a mask: one bit flipped,
\* all bits flipped, and the masks 1..MaxTamperMask
MaxTamperMask == 3
TamperMasks == {2 ^ k : k \in 0..7} \cup {255} \cup (1..MaxTamperMask)
\* malformed[offset] = value, for a value that differs from the byte there
Tamper ==
    /\ Untouched
    /\ \E offset \in 0..(Len(file) - 1), mask \in TamperMasks :
          /\ file' = [file EXCEPT ![offset + 1] = XorByte(@, mask)]
          /\ origin' = [origin EXCEPT !.kind = "tampered", !.offset = offset,
                                      !.old = file[offset + 1]]
    /\ UNCHANGED <<hasStreams, insResult, decStage, decLocals, decResult>>
    /\ UNCHANGED encVars
    /\ UNCHANGED <<xyzVars, appVars>>
\* an uncompressed and a compressed tile of uint16 samples, and a tile of the
\* XYZ mesh with a big-endian float32 sample and a no_data value
TamperInputs ==
    {BaseInput,
     [BaseInput EXCEPT !.compression = "deflate-raw"],
     [BaseInput EXCEPT !.tile_id = BigIntId(GivenId(3, TRUE, -1)), !.mesh_kind = "xyz",
                       !.dtype = "float32", !.endianness = "big",
                       !.rows = Num(1), !.cols = Num(1), !.compression = "none",
                       !.no_data = HALF, !.data = <<FLOAT32_TINY>>]}
TamperEncode == \E given \in TamperInputs : EncodeBegin(given)
TamperNext == TamperEncode \/ EncodeResume \/ Tamper \/ Inspect \/ Decode
SpecTamper == Init /\ [][TamperNext]_vars

\* the buffer with the bytes of every patch written at its offset
Covers(patch, offset) ==
    offset >= patch.offset /\ offset < patch.offset + Len(patch.bytes)
Patched(bytes, patches) ==
    [i \in 1..Len(bytes) |->
        IF \E patch \in patches : Covers(patch, i - 1)
        THEN LET patch == CHOOSE q \in patches : Covers(q, i - 1)
             IN  patch.bytes[i - patch.offset]
        ELSE bytes[i]]
\* the header checksum of the first 54 bytes written again at offset 54
Resealed(bytes) ==
    SetBytes(bytes, crc32(Slice(bytes, 0, HEADER_CHECKSUM_INPUT_LENGTH)),
             HEADER_CHECKSUM_OFFSET)
\* the buffer cut to a length, or extended to it with zero bytes
Resized(bytes, length) ==
    [i \in 1..length |-> IF i <= Len(bytes) THEN bytes[i] ELSE 0]
Patch(offset, bytes) == [offset |-> offset, bytes |-> bytes]
U64LE(n) == writeU64LE(BigInt(n))
\* values to overwrite header fields and the first payload byte with: legal
\* and illegal codes, zero and changed dimensions, no_data slots that break
\* the padding rule, lengths off by one and beyond 2^53 - 1, a wrong checksum
ForgePatches ==
    {Patch(offset, <<0>>) : offset \in 0..3}
    \cup {Patch(OFFSET_FORMAT_MAJOR, <<major>>) : major \in {0, 2}}
    \cup {Patch(OFFSET_TILE_ID, writeU64LE(id)) :
             id \in {GivenId(3, TRUE, -1), GivenId(MAX_ZOOM + 1, FALSE, -1),
                     GivenId(1, FALSE, 4)}}
    \cup {Patch(OFFSET_MESH_KIND, <<code>>) : code \in {0, 2, 3}}
    \cup {Patch(OFFSET_DTYPE_ENDIAN, <<packed>>) : packed \in {0, 6, 8, 130}}
    \cup {Patch(OFFSET_COMPRESSION, <<code>>) : code \in {1, 2}}
    \cup {Patch(OFFSET_ROWS, <<rows, 0, 0, 0>>) : rows \in {0, 3}}
    \cup {Patch(OFFSET_COLS, <<0, 0, 0, 0>>)}
    \cup {Patch(OFFSET_BANDS, <<bands>>) : bands \in {0, 2}}
    \cup {Patch(OFFSET_NO_DATA_KIND, <<kind>>) : kind \in {1, 2}}
    \cup {Patch(OFFSET_NO_DATA_VALUE, <<0, 0, 0, 0, 0, 0, 0, 1>>),
          Patch(OFFSET_NO_DATA_KIND, <<1, 52, 18, 0, 0, 0, 0, 0, 0>>),
          Patch(OFFSET_NO_DATA_KIND, <<1, 0, 0, 128, 127, 0, 0, 0, 0>>)}
    \cup {Patch(OFFSET_UNCOMPRESSED_PAYLOAD_LENGTH, length) :
             length \in {U64LE(9), writeU64LE(Shl(BigInt(1), SAFE_INTEGER_BITS))}}
    \cup {Patch(OFFSET_COMPRESSED_PAYLOAD_LENGTH, length) :
             length \in {U64LE(0), U64LE(7), U64LE(9),
                         writeU64LE(Shl(BigInt(1), SAFE_INTEGER_BITS))}}
    \cup {Patch(OFFSET_PAYLOAD_CHECKSUM, <<0, 0, 0, 0>>),
          Patch(FIXED_HEADER_LENGTH, <<255>>)}
\* a forgery changes at most MaxForgeries things: a patch, the length, the
\* header checksum left as it was
MaxForgeries == 2
Disjoint(patches) ==
    \A a \in patches, b \in patches :
        a # b => (a.offset + Len(a.bytes) <= b.offset \/ b.offset + Len(b.bytes) <= a.offset)
RECURSIVE PatchSets(_)
PatchSets(n) ==
    IF n = 0 THEN {{}}
    ELSE LET fewer == PatchSets(n - 1)
         IN  fewer \cup {patches \cup {patch} : patches \in fewer, patch \in ForgePatches}
Forge ==
    /\ Untouched
    /\ \E patches \in PatchSets(MaxForgeries), sealed \in BOOLEAN,
          length \in {Len(file), Len(file) - 1, Len(file) + 1, FIXED_HEADER_LENGTH - 1} :
          /\ Disjoint(patches)
          /\ Cardinality(patches) + (IF sealed THEN 0 ELSE 1)
                + (IF length = Len(file) THEN 0 ELSE 1) <= MaxForgeries
          /\ file' = Resized(IF sealed THEN Resealed(Patched(file, patches))
                             ELSE Patched(file, patches), length)
          /\ origin' = [origin EXCEPT !.kind = "forged", !.patches = patches]
    /\ UNCHANGED <<hasStreams, insResult, decStage, decLocals, decResult>>
    /\ UNCHANGED encVars
    /\ UNCHANGED <<xyzVars, appVars>>
ForgeInputs ==
    {BaseInput, [BaseInput EXCEPT !.compression = "deflate-raw"]}
ForgeEncode == \E given \in ForgeInputs : EncodeBegin(given)
ForgeNext == ForgeEncode \/ EncodeResume \/ Forge \/ Inspect \/ Decode
SpecForge == Init /\ [][ForgeNext]_vars

\* dimensions at and beyond their limits: 0, the first value that rows and
\* cols cannot hold, 2^32, and the first that bands cannot hold, 256
TWO_32 == F64Pack(0, 1023 + 32, 0, 0)
LimitRows == {ZERO, Num(1), Num(2), TWO_32}
LimitBands == {ZERO, Num(1), Num(2), Num(256)}
\* 4 or 256 values, so that 2 x 2 x 1 and 1 x 1 x 256 have as many values as
\* the dimensions ask for
LimitInputs ==
    {[BaseInput EXCEPT !.rows = rows, !.cols = cols, !.bands = bands,
                       !.mesh_kind = meshKind, !.compression = compression,
                       !.data = [i \in 1..count |-> Num(i)]] :
        rows \in LimitRows, cols \in LimitRows, bands \in LimitBands,
        meshKind \in {"jis-x0410", "undefined"},
        compression \in {"undefined", "deflate-raw"},
        count \in {4, 256}}
LimitEncode == \E given \in LimitInputs : EncodeBegin(given)
LimitNext == LimitEncode \/ EncodeResume \/ Inspect \/ Decode
SpecLimit == Init /\ [][LimitNext]_vars

\* inputs that break several of the checks of encodeTile at once: the tile
\* id, the mesh kind, the dtype, the byte order, a dimension, the compression
\* mode, the no_data value, the number of values
OrderInputs ==
    {[BaseInput EXCEPT !.tile_id = tileId, !.mesh_kind = meshKind, !.dtype = dtype,
                       !.endianness = endianness, !.rows = rows, !.bands = bands,
                       !.compression = compression, !.no_data = noData,
                       !.data = [i \in 1..count |-> Num(i)]] :
        tileId \in {BigIntId(BigInt(1001)), BigIntId(GivenId(3, TRUE, -1)),
                    [type |-> "number", neg |-> FALSE, integral |-> FALSE,
                     mag |-> BigInt(1001)]},
        meshKind \in {"jis-x0410", "xyz", "undefined"},
        dtype \in {"uint16", "undefined"},
        endianness \in {"little", "undefined"},
        rows \in {Num(2), ZERO},
        bands \in {Num(1), Num(256)},
        compression \in {"undefined", "deflate-raw", "gzip"},
        noData \in {Undefined, POSITIVE_INFINITY},
        count \in {4, 1}}
OrderEncode == \E given \in OrderInputs : EncodeBegin(given)
OrderNext == OrderEncode \/ EncodeResume \/ Inspect \/ Decode
SpecOrder == Init /\ [][OrderNext]_vars

\* every input of the round trip, and the forgeries of the two tiles above
AnyForge == input \in ForgeInputs /\ Forge
AnyNext == RoundTripEncode \/ EncodeResume \/ AnyForge \/ Inspect \/ Decode
SpecAny == Init /\ [][AnyNext]_vars


(***************************************************************************)
(* An input object that its owner changes while encodeTile is suspended.   *)
(***************************************************************************)
\* values that the caller writes into a field of the input object
MutatedFields ==
    [mesh_kind : {"jis-x0410", "xyz"},
     dtype : {"uint16", "int16", "uint8"},
     endianness : {"little", "big"},
     rows : {Num(2), Num(4)},
     cols : {Num(2)},
     bands : {Num(1), Num(2)}]
Overwritten(given, fields) ==
    [given EXCEPT !.mesh_kind = fields.mesh_kind, !.dtype = fields.dtype,
                  !.endianness = fields.endianness, !.rows = fields.rows,
                  !.cols = fields.cols, !.bands = fields.bands]
\* the caller assigns to fields of the object it passed, between the call
\* and the continuation of encodeTile after its await
MutateInput ==
    /\ encPc = "awaiting"
    /\ \E fields \in MutatedFields :
          /\ Overwritten(input, fields) # input
          /\ input' = Overwritten(input, fields)
    /\ UNCHANGED <<hasStreams, encPc, encLocals, encResult, file, origin>>
    /\ UNCHANGED decVars
    /\ UNCHANGED <<xyzVars, appVars>>
MutateEncode == \E given \in ForgeInputs : EncodeBegin(given)
MutateNext == MutateEncode \/ MutateInput \/ EncodeResume \/ Inspect \/ Decode
SpecMutate == Init /\ [][MutateNext]_vars
\* tiles whose tile id and mesh kind are overwritten in the header, beside
\* the calls that take a tile id as an argument
IdForge ==
    /\ Untouched /\ input = BaseInput
    /\ \E id \in IdSamples, code \in DOMAIN CODE_TO_MESH_KIND :
          LET patches == {Patch(OFFSET_TILE_ID, writeU64LE(id)),
                          Patch(OFFSET_MESH_KIND, <<code>>)}
          IN  /\ file' = Resealed(Patched(file, patches))
              /\ origin' = [origin EXCEPT !.kind = "forged", !.patches = patches]
    /\ UNCHANGED <<hasStreams, insResult, decStage, decLocals, decResult>>
    /\ UNCHANGED encVars
    /\ UNCHANGED <<xyzVars, appVars>>
\* a run takes a tile id to the helpers or to the codec
IdGiven == encPc = "idle" /\ XyzDecodeGiven
IdEncode == xyzPc = "start" /\ \E given \in IdInputs : EncodeBegin(given)
IdNext == IdGiven \/ IdEncode \/ EncodeResume \/ IdForge \/ Inspect \/ Decode
SpecId == Init /\ [][IdNext]_vars

(***************************************************************************)
(* formatDecodedCsv.  A string is the sequence of its characters.          *)
(***************************************************************************)
DIGITS == <<"0", "1", "2", "3", "4", "5", "6", "7", "8", "9">>
\* String(n) for an integer n >= 0
RECURSIVE String(_)
String(n) ==
    IF n < 10 THEN <<DIGITS[n + 1]>>
    ELSE String(n \div 10) \o <<DIGITS[(n % 10) + 1]>>
\* parts.join(separator)
RECURSIVE Join(_, _)
Join(parts, separator) ==
    IF Len(parts) = 0 THEN <<>>
    ELSE IF Len(parts) = 1 THEN parts[1]
    ELSE parts[1] \o separator \o Join(Tail(parts), separator)
\* CsvLines with the columns outermost: the index runs down a column first
RECURSIVE CsvLinesByColumn(_, _, _, _, _, _, _, _)
CsvLinesByColumn(values, rows, cols, bands, row, col, index, lines) ==
    IF col >= cols THEN lines
    ELSE IF row >= rows
    THEN CsvLinesByColumn(values, rows, cols, bands, 0, col + 1, index, lines)
    ELSE LET bandValues == [band \in 1..bands |-> String(values[index + band])]
         IN  CsvLinesByColumn(values, rows, cols, bands, row + 1, col, index + bands,
                      Append(lines,
                             String(col) \o <<",">> \o String(row) \o <<",">>
                                \o Join(bandValues, <<",">>)))
\* the loops over row and col, with the running index into the values
RECURSIVE CsvLines(_, _, _, _, _, _, _, _)
CsvLines(values, rows, cols, bands, row, col, index, lines) ==
    IF row >= rows THEN lines
    ELSE IF col >= cols
    THEN CsvLines(values, rows, cols, bands, row + 1, 0, index, lines)
    ELSE LET bandValues == [band \in 1..bands |-> String(values[index + band])]
         IN  CsvLines(values, rows, cols, bands, row, col + 1, index + bands,
                      Append(lines,
                             String(col) \o <<",">> \o String(row) \o <<",">>
                                \o Join(bandValues, <<",">>)))
formatDecodedCsv(values, rows, cols, bands) ==
    LET expected == rows * cols * bands
        header == Join(<<<<"x">>, <<"y">>>>
                          \o [i \in 1..bands |-> <<"b">> \o String(i - 1)],
                       <<",">>)
    IN  IF Len(values) # expected THEN Err("INVALID_PAYLOAD_LENGTH")
        ELSE Ok(Join(CsvLines(values, rows, cols, bands, 0, 0, 0, <<header>>),
                     <<"\n">>))

\* grids of up to MaxCsvSide rows and columns and MaxCsvBands bands, with
\* the number of values that the grid has, or up to MaxCsvExtra more or fewer
MaxCsvSide == 2
MaxCsvBands == 2
MaxCsvExtra == 2
\* values of one, two and three digits that differ from cell to cell
CsvValues(n, step, first) == [i \in 1..n |-> first + step * (i - 1)]
CsvInputs ==
    {[values |-> CsvValues(n, step, first), rows |-> rows, cols |-> cols, bands |-> bands] :
        rows \in 0..MaxCsvSide, cols \in 0..MaxCsvSide, bands \in 1..MaxCsvBands,
        n \in 0..(MaxCsvSide * MaxCsvSide * MaxCsvBands + MaxCsvExtra),
        step \in {1, 13}, first \in {0, 95}}
\* no call of the codec is made
CodecIdle ==
    /\ XyzIdle
    /\ hasStreams = TRUE
    /\ input = NoInput
    /\ encPc = "idle"
    /\ encLocals = NoLocals
    /\ encResult = None
    /\ file = <<>>
    /\ origin = [kind |-> "none"]
    /\ insResult = None
    /\ decStage = "IDLE"
    /\ decLocals = NoLocals
    /\ decResult = None
    /\ calls = [c \in Calls |-> NoCall]
CsvInit ==
    /\ CodecIdle
    /\ csvGiven \in CsvInputs
    /\ csvResult = None
    /\ LruIdle
    /\ ProtocolIdle
\* formatDecodedCsv(values, rows, cols, bands)
CsvFormat ==
    /\ NotCalled(csvResult)
    /\ csvResult' = formatDecodedCsv(csvGiven.values, csvGiven.rows, csvGiven.cols,
                                     csvGiven.bands)
    /\ UNCHANGED csvGiven
    /\ UNCHANGED <<xyzVars, codecVars, callVars, lruVars, protocolVars>>
CsvNext == CsvFormat
SpecCsv == CsvInit /\ [][CsvNext]_vars

(***************************************************************************)
(* decodeTile in the two parts that its await separates, and calls of      *)
(* encodeTile and decodeTile that are in flight together.  A call keeps    *)
(* its argument and its locals; nothing else outlives a part of a call.    *)
(***************************************************************************)
\* decodeTile up to its await of decompressPayload
decodeTileBegin(bytes, streams) ==
    LET Loaded(info, header, length, payload) ==
            IF /\ header.compression # "none"
               /\ ~isCompressionModeSupported(header.compression, streams)
            THEN Err("UNSUPPORTED_COMPRESSION")
            ELSE IF Len(payload) # length
            THEN Err("INVALID_PAYLOAD_LENGTH")
            ELSE Ok([set |-> TRUE, info |-> info, payload |-> payload,
                     \* the promise of decompressPayload(header.compression, payload)
                     decompressed |->
                         decompressPayload(header.compression, payload, streams)])
        Sliced(info, length) ==
            Loaded(info, info.header, length,
                   Slice(bytes, info.payload_offset, info.payload_offset + length))
        Inspected(info) ==
            IF ~info.ok THEN info
            ELSE Sliced(info.value, ToInt(info.value.payload_length))
    IN  Inspected(inspectTile(bytes))
\* decodeTile from its await on
decodeTileResume(locals) ==
    LET header == locals.info.header
        Decoded(decompressed, sampleCount, data) ==
            IF ~sampleCount.ok THEN sampleCount
            ELSE IF Len(decompressed)
                      # sampleCount.value * byteLengthForDType(header.dtype)
            THEN Err("INVALID_PAYLOAD_LENGTH")
            ELSE IF ~data.ok THEN data
            ELSE Ok([header |-> header, data |-> data.value, payload |-> decompressed])
        Checked(decompressed) ==
            IF ~decompressed.ok THEN decompressed
            ELSE IF Num(Len(decompressed.value)) # header.payload.uncompressed_bytes
            THEN Err("INVALID_PAYLOAD_LENGTH")
            ELSE IF crc32(decompressed.value) # FromHex(header.checksum.payload_crc32)
            THEN Err("PAYLOAD_CHECKSUM_MISMATCH")
            ELSE Decoded(decompressed.value, totalSamples(header.dimensions),
                         decodeValues(header.dtype, decompressed.value,
                                      header.endianness = "little"))
    IN  Checked(locals.decompressed)
\* what decodeTile returns for a buffer, its await over
DecodedTile(bytes, streams) ==
    LET Resumed(begun) == IF ~begun.ok THEN begun ELSE decodeTileResume(begun.value)
    IN  Resumed(decodeTileBegin(bytes, streams))

\* inputs of the calls: two tiles, and an input that fails before the await
CallInputs == ForgeInputs \cup {[BaseInput EXCEPT !.rows = ZERO]}
\* buffers of the calls: the two tiles, the first with its first payload
\* byte changed, and whatever bytes a call of encodeTile has returned
CallBuffers ==
    LET tiles == {EncodedTile(given, TRUE).value.bytes : given \in ForgeInputs}
    IN  tiles
          \cup {[bytes EXCEPT ![FIXED_HEADER_LENGTH + 1] = XorByte(@, 255)] :
                   bytes \in {EncodedTile(BaseInput, TRUE).value.bytes}}
          \cup {calls[c].result.value.bytes :
                   c \in {d \in Calls : calls[d].kind = "encode" /\ calls[d].result.ok}}
\* the first part of a call has run: the call is suspended, or has thrown
Begun(kind, arg, begun) ==
    [kind |-> kind, arg |-> arg, inFlight |-> {},
     pc |-> IF begun.ok THEN "awaiting" ELSE "done",
     locals |-> IF begun.ok THEN begun.value ELSE NoLocals,
     result |-> IF begun.ok THEN None ELSE begun]
CallFrame == <<xyzVars, apiVars, lruVars, protocolVars, input, encPc, encLocals, encResult, file, origin,
               insResult, decStage, decLocals, decResult, hasStreams>>
\* encodeTile(given) is called while other calls are in flight
CallEncodeBegin(c) ==
    /\ calls[c].pc = "idle" /\ calls[c].kind = "none"
    /\ \E given \in CallInputs :
          calls' = [calls EXCEPT
                       ![c] = Begun("encode", given, encodeTileBegin(given, hasStreams))]
    /\ UNCHANGED CallFrame
\* decodeTile(bytes) is called while other calls are in flight
CallDecodeBegin(c) ==
    /\ calls[c].pc = "idle" /\ calls[c].kind = "none"
    /\ \E bytes \in CallBuffers :
          calls' = [calls EXCEPT
                       ![c] = Begun("decode", bytes, decodeTileBegin(bytes, hasStreams))]
    /\ UNCHANGED CallFrame
\* the continuation of a call that takes the locals of the call that was
\* suspended last before it, as if they were kept in one place for all calls
CallResumeShared(c) ==
    /\ calls[c].pc = "awaiting"
    /\ \E from \in {IF \E d \in Calls : d > c /\ calls[d].pc = "awaiting"
                                          /\ calls[d].kind = calls[c].kind
                    THEN CHOOSE d \in Calls : d > c /\ calls[d].pc = "awaiting"
                                                /\ calls[d].kind = calls[c].kind
                    ELSE c} :
          calls' = [calls EXCEPT
                       ![c].pc = "done",
                       ![c].inFlight = {d \in Calls \ {c} : calls[d].pc = "awaiting"},
                       ![c].result =
                           IF calls[c].kind = "encode"
                           THEN encodeTileResume(calls[from].arg, calls[from].locals)
                           ELSE decodeTileResume(calls[from].locals)]
    /\ UNCHANGED CallFrame
\* the await of a call is over: its continuation runs with the argument and
\* the locals of the call, and the call returns or throws
CallResume(c) ==
    /\ calls[c].pc = "awaiting"
    /\ calls' = [calls EXCEPT
                    ![c].pc = "done",
                    ![c].inFlight = {d \in Calls \ {c} : calls[d].pc = "awaiting"},
                    ![c].result =
                        IF calls[c].kind = "encode"
                        THEN encodeTileResume(calls[c].arg, calls[c].locals)
                        ELSE decodeTileResume(calls[c].locals)]
    /\ UNCHANGED CallFrame
CallsNext ==
    \E c \in Calls : CallEncodeBegin(c) \/ CallDecodeBegin(c) \/ CallResume(c)
SpecCalls == Init /\ [][CallsNext]_vars

(***************************************************************************)
(* The LRU caches of the MapLibre protocol handler.  A Map is the sequence *)
(* of its entries in insertion order, as its iterators have them.          *)
(***************************************************************************)
MapKeys(cache) == {cache[i].key : i \in 1..Len(cache)}
\* cache.get(key): undefined for a key that is not there
MapGet(cache, key) ==
    IF key \in MapKeys(cache)
    THEN cache[CHOOSE i \in 1..Len(cache) : cache[i].key = key].value
    ELSE Undefined
\* cache.delete(key)
MapDelete(cache, key) == SelectSeq(cache, LAMBDA entry : entry.key # key)
\* cache.set(key, value): a key that is there keeps its place
MapSet(cache, key, value) ==
    IF key \in MapKeys(cache)
    THEN [i \in 1..Len(cache) |->
             IF cache[i].key = key THEN [key |-> key, value |-> value] ELSE cache[i]]
    ELSE Append(cache, [key |-> key, value |-> value])
\* getFromLru: what it returns, and the Map it leaves
getFromLru(cache, key) ==
    LET value == MapGet(cache, key)
    IN  IF value = Undefined THEN [returned |-> Undefined, cache |-> cache]
        ELSE [returned |-> value,
              cache |-> MapSet(MapDelete(cache, key), key, value)]
\* setToLru that removes the entry inserted last when the Map is too large
setToLruNewest(cache, key, value, maxEntries) ==
    LET removed == IF key \in MapKeys(cache) THEN MapDelete(cache, key) ELSE cache
        inserted == MapSet(removed, key, value)
    IN  IF Len(inserted) <= maxEntries THEN inserted
        ELSE MapDelete(inserted, inserted[Len(inserted)].key)
\* setToLru: the Map it leaves
setToLru(cache, key, value, maxEntries) ==
    LET removed == IF key \in MapKeys(cache) THEN MapDelete(cache, key) ELSE cache
        inserted == MapSet(removed, key, value)
        \* cache.keys().next().value
        oldestKey == inserted[1].key
    IN  IF Len(inserted) <= maxEntries THEN inserted
        ELSE MapDelete(inserted, oldestKey)

\* a Map configured with 0..MaxLruEntries entries, on which at most MaxLruCalls
\* lookups and insertions are made
MaxLruEntries == 2
MaxLruCalls == 5
LruValues == {<<"v1">>, <<"v2">>}
LruInit ==
    /\ CodecIdle
    /\ ApiIdle
    /\ lruCache = <<>>
    /\ lruMax \in 0..MaxLruEntries
    /\ lruUsed = [k \in LruKeys |-> 0]
    /\ lruLast = NoLruCall
    /\ ProtocolIdle
LruFrame == <<xyzVars, codecVars, apiVars, callVars, protocolVars, lruMax>>
\* getFromLru(cache, key)
LruGet ==
    /\ lruLast.at < MaxLruCalls
    /\ \E key \in LruKeys :
          \E got \in {getFromLru(lruCache, key)} :
             /\ lruCache' = got.cache
             /\ lruLast' = [op |-> "get", key |-> key, value |-> <<>>,
                            returned |-> got.returned, before |-> lruCache,
                            usedBefore |-> lruUsed, at |-> lruLast.at + 1]
             /\ lruUsed' = IF got.returned = Undefined THEN lruUsed
                           ELSE [lruUsed EXCEPT ![key] = lruLast.at + 1]
    /\ UNCHANGED LruFrame
\* setToLru(cache, key, value, maxEntries)
LruSet ==
    /\ lruLast.at < MaxLruCalls
    /\ \E key \in LruKeys, value \in LruValues :
          /\ lruCache' = setToLru(lruCache, key, value, lruMax)
          /\ lruLast' = [op |-> "set", key |-> key, value |-> value, returned |-> <<>>,
                         before |-> lruCache, usedBefore |-> lruUsed,
                         at |-> lruLast.at + 1]
          /\ lruUsed' = [lruUsed EXCEPT ![key] = lruLast.at + 1]
    /\ UNCHANGED LruFrame
LruNext == LruGet \/ LruSet
SpecLru == LruInit /\ [][LruNext]_vars

(***************************************************************************)
(* The request handler of createMapLibreMeshTileProtocol.  A request runs  *)
(* from its call to its first await in one step; every continuation after  *)
(* an await is a step of its own, so that calls of the handler, aborts and  *)
(* the settling of fetches fall between them in every order.  A promise is  *)
(* named by the request or the fetch that made it.                          *)
(***************************************************************************)
emptyVectorTileBytes == <<"empty">>
\* the bytes built from the features of a tile, and the features of a mesh tile
VectorTile(url) == <<"tile", url>>
Features(meshUrl) == <<"features", meshUrl>>
\* resolveMeshCandidates: the mesh tile URL of a request URL
CandidateUrl(url) == "m"
\* no signal is given to candidate.handler.fetchTile(tile)
NoSignal == 0
\* getMeshFeatures that hands the signal of the request to fetchTile
getMeshFeaturesSignalled(cache, inFlight, made, meshUrl, maxEntries, signal) ==
    LET got == getFromLru(cache, meshUrl)
    IN  IF got.returned # Undefined
        THEN [cache |-> got.cache, inFlight |-> inFlight, fetches |-> made,
              load |-> "haveFeatures", fetch |-> 0, held |-> "cached"]
        ELSE IF inFlight[meshUrl] # 0
        THEN [cache |-> cache, inFlight |-> inFlight, fetches |-> made,
              load |-> "waitMesh", fetch |-> inFlight[meshUrl], held |-> "inFlight"]
        ELSE [cache |-> cache,
              inFlight |-> [inFlight EXCEPT ![meshUrl] = Len(made) + 1],
              fetches |-> Append(made, [url |-> meshUrl, state |-> "pending",
                                        signal |-> signal]),
              load |-> "waitMesh", fetch |-> Len(made) + 1, held |-> "none"]
\* getMeshFeatures up to its await: the cached features, or the fetch that
\* is in flight, or a new fetch; what the request goes on with
getMeshFeatures(cache, inFlight, made, meshUrl, maxEntries, signal) ==
    LET got == getFromLru(cache, meshUrl)
    IN  IF got.returned # Undefined
        THEN [cache |-> got.cache, inFlight |-> inFlight, fetches |-> made,
              load |-> "haveFeatures", fetch |-> 0, held |-> "cached"]
        ELSE IF inFlight[meshUrl] # 0
        THEN [cache |-> cache, inFlight |-> inFlight, fetches |-> made,
              load |-> "waitMesh", fetch |-> inFlight[meshUrl], held |-> "inFlight"]
        ELSE [cache |-> cache,
              inFlight |-> [inFlight EXCEPT ![meshUrl] = Len(made) + 1],
              fetches |-> Append(made, [url |-> meshUrl, state |-> "pending",
                                        signal |-> NoSignal]),
              load |-> "waitMesh", fetch |-> Len(made) + 1, held |-> "none"]

\* the configured maxima of the caches
MaxCacheEntries == 1
ProtocolInit ==
    /\ CodecIdle
    /\ ApiIdle
    /\ LruIdle
    /\ cacheConfig \in [vectorTilesMaxEntries : 0..MaxCacheEntries,
                        meshFeaturesMaxEntries : 0..MaxCacheEntries]
    /\ requests = [r \in Requests |-> NoRequest]
    /\ vectorTileCache = <<>>
    /\ vectorTileInFlight = [u \in RequestUrls |-> 0]
    /\ meshFeaturesCache = <<>>
    /\ meshFeaturesInFlight = [m \in MeshUrls |-> 0]
    /\ fetches = <<>>
ProtocolFrame == <<xyzVars, codecVars, apiVars, callVars, lruVars, cacheConfig>>
\* the handler is called and finds the vector tile in its cache
RequestCached(r, url) ==
    \E got \in {getFromLru(vectorTileCache, url)} :
       /\ got.returned # Undefined
       /\ vectorTileCache' = got.cache
       /\ requests' = [requests EXCEPT ![r] =
              [@ EXCEPT !.url = url, !.pc = "done", !.role = "cached",
                        !.result = Ok(got.returned)]]
       /\ UNCHANGED <<vectorTileInFlight, meshFeaturesCache, meshFeaturesInFlight,
                      fetches>>
\* the handler is called and finds a load of the request URL in flight
RequestJoin(r, url) ==
    /\ MapGet(vectorTileCache, url) = Undefined
    /\ vectorTileInFlight[url] # 0
    /\ requests' = [requests EXCEPT ![r] =
           [@ EXCEPT !.url = url, !.pc = "joined", !.role = "joiner",
                     !.joined = vectorTileInFlight[url]]]
    /\ UNCHANGED <<vectorTileCache, vectorTileInFlight, meshFeaturesCache,
                   meshFeaturesInFlight, fetches>>
\* the fetches of a mesh tile URL that have not settled
PendingFetches(meshUrl) ==
    {f \in 1..Len(fetches) : fetches[f].url = meshUrl /\ fetches[f].state = "pending"}
\* the handler is called and starts a load, which runs to its first await
RequestLoad(r, url) ==
    /\ MapGet(vectorTileCache, url) = Undefined
    /\ vectorTileInFlight[url] = 0
    /\ vectorTileInFlight' = [vectorTileInFlight EXCEPT ![url] = r]
    /\ UNCHANGED vectorTileCache
    /\ IF requests[r].aborted
       THEN /\ requests' = [requests EXCEPT ![r] =
                   [@ EXCEPT !.url = url, !.pc = "loading", !.role = "starter",
                             !.load = "rejected"]]
            /\ UNCHANGED <<meshFeaturesCache, meshFeaturesInFlight, fetches>>
       ELSE \E got \in {getMeshFeatures(meshFeaturesCache, meshFeaturesInFlight,
                                        fetches, CandidateUrl(url),
                                        cacheConfig.meshFeaturesMaxEntries, r)} :
               /\ meshFeaturesCache' = got.cache
               /\ meshFeaturesInFlight' = got.inFlight
               /\ fetches' = got.fetches
               /\ requests' = [requests EXCEPT ![r] =
                      [@ EXCEPT !.url = url, !.pc = "loading", !.role = "starter",
                                !.load = got.load, !.fetch = got.fetch,
                                !.held = got.held,
                                !.pending = PendingFetches(CandidateUrl(url))]]
\* a call of the handler with a tile request
Request(r) ==
    /\ requests[r].pc = "idle"
    /\ \A earlier \in 1..(r - 1) : requests[earlier].pc # "idle"
    /\ \E url \in RequestUrls :
          RequestCached(r, url) \/ RequestJoin(r, url) \/ RequestLoad(r, url)
    /\ UNCHANGED ProtocolFrame
\* abortController.abort() of a request: a fetch that was given its signal
\* is aborted, and its own wait in awaitWithAbortSignal is rejected, which
\* the load turns into no features and so into the empty tile
Abort(r) ==
    /\ ~requests[r].aborted
    /\ requests[r].pc # "done"
    /\ requests' = [requests EXCEPT ![r] =
           IF @.load = "waitMesh"
           THEN [@ EXCEPT !.aborted = TRUE, !.load = "resolved",
                          !.bytes = emptyVectorTileBytes]
           ELSE [@ EXCEPT !.aborted = TRUE]]
    /\ fetches' = [f \in 1..Len(fetches) |->
           IF fetches[f].signal = r /\ fetches[f].state = "pending"
           THEN [fetches[f] EXCEPT !.state = "aborted"]
           ELSE fetches[f]]
    /\ meshFeaturesInFlight' = [m \in MeshUrls |->
           IF meshFeaturesInFlight[m] # 0
              /\ fetches'[meshFeaturesInFlight[m]].state = "aborted"
           THEN 0 ELSE meshFeaturesInFlight[m]]
    /\ UNCHANGED <<vectorTileCache, vectorTileInFlight, meshFeaturesCache>>
    /\ UNCHANGED ProtocolFrame
\* a fetch settles: its features are cached, and it is in flight no more
FetchSettle(f) ==
    /\ fetches[f].state = "pending"
    /\ \/ /\ fetches' = [fetches EXCEPT ![f].state = "resolved"]
          /\ meshFeaturesCache' = setToLru(meshFeaturesCache, fetches[f].url,
                                           Features(fetches[f].url),
                                           cacheConfig.meshFeaturesMaxEntries)
       \/ /\ fetches' = [fetches EXCEPT ![f].state = "rejected"]
          /\ UNCHANGED meshFeaturesCache
    /\ meshFeaturesInFlight' = [meshFeaturesInFlight EXCEPT ![fetches[f].url] = 0]
    /\ UNCHANGED <<requests, vectorTileCache, vectorTileInFlight>>
    /\ UNCHANGED ProtocolFrame
\* awaitWithAbortSignal settles with the fetch: the load has the features,
\* or it has none and returns the empty tile
MeshSettled(r) ==
    /\ requests[r].load = "waitMesh"
    /\ fetches[requests[r].fetch].state # "pending"
    /\ requests' = [requests EXCEPT ![r] =
           IF fetches[@.fetch].state = "resolved"
           THEN [@ EXCEPT !.load = "haveFeatures"]
           ELSE [@ EXCEPT !.load = "resolved", !.bytes = emptyVectorTileBytes]]
    /\ UNCHANGED <<vectorTileCache, vectorTileInFlight, meshFeaturesCache,
                   meshFeaturesInFlight, fetches>>
    /\ UNCHANGED ProtocolFrame
\* the load goes on after Promise.all: the second throwIfAborted, the
\* vector tile, setToLru
LoadFinish(r) ==
    /\ requests[r].load = "haveFeatures"
    /\ IF requests[r].aborted
       THEN /\ requests' = [requests EXCEPT ![r].load = "rejected"]
            /\ UNCHANGED vectorTileCache
       ELSE /\ requests' = [requests EXCEPT ![r] =
                   [@ EXCEPT !.load = "resolved", !.bytes = VectorTile(requests[r].url)]]
            /\ vectorTileCache' = setToLru(vectorTileCache, requests[r].url,
                                           VectorTile(requests[r].url),
                                           cacheConfig.vectorTilesMaxEntries)
    /\ UNCHANGED <<vectorTileInFlight, meshFeaturesCache, meshFeaturesInFlight,
                   fetches>>
    /\ UNCHANGED ProtocolFrame
\* the request that started the load goes on after await loadPromise
HandlerDone(r) ==
    /\ requests[r].pc = "loading"
    /\ requests[r].load \in {"resolved", "rejected"}
    /\ IF requests[r].load = "resolved"
       THEN /\ requests' = [requests EXCEPT ![r] =
                   [@ EXCEPT !.pc = "done", !.result = Ok(requests[r].bytes)]]
            /\ UNCHANGED <<vectorTileCache, meshFeaturesCache>>
       ELSE /\ requests' = [requests EXCEPT ![r] =
                   [@ EXCEPT !.pc = "done", !.result = Err("ABORTED")]]
            /\ vectorTileCache' = <<>>
            /\ meshFeaturesCache' = <<>>
    /\ vectorTileInFlight' = [vectorTileInFlight EXCEPT ![requests[r].url] = 0]
    /\ UNCHANGED <<meshFeaturesInFlight, fetches>>
    /\ UNCHANGED ProtocolFrame
\* the request that joined a load goes on after await inFlight
JoinDone(r) ==
    /\ requests[r].pc = "joined"
    /\ requests[requests[r].joined].load \in {"resolved", "rejected"}
    /\ requests' = [requests EXCEPT ![r] =
           [@ EXCEPT !.pc = "done",
                     !.result = IF requests[requests[r].joined].load = "resolved"
                                THEN Ok(requests[requests[r].joined].bytes)
                                ELSE Err("ABORTED")]]
    /\ UNCHANGED <<vectorTileCache, vectorTileInFlight, meshFeaturesCache,
                   meshFeaturesInFlight, fetches>>
    /\ UNCHANGED ProtocolFrame
ProtocolNext ==
    \/ \E r \in Requests :
          Request(r) \/ Abort(r) \/ MeshSettled(r) \/ LoadFinish(r)
             \/ HandlerDone(r) \/ JoinDone(r)
    \/ \E f \in 1..Len(fetches) : FetchSettle(f)
SpecProtocol == ProtocolInit /\ [][ProtocolNext]_vars

(***************************************************************************)
(* Properties of the tile-id helpers.                                      *)
(***************************************************************************)
InXyzRange(t) ==
    /\ t.zoom \in 0..29
    /\ t.x >= 0 /\ t.x < 2 ^ t.zoom
    /\ t.y >= 0 /\ t.y < 2 ^ t.zoom
Low58(id) == [i \in BitIndex |-> IF i < 58 THEN id[i] ELSE 0]
Top6(id) == [i \in BitIndex |-> IF i < 6 THEN id[i + 58] ELSE 0]
Pow4(zoom) == [i \in BitIndex |-> IF i = 2 * zoom THEN 1 ELSE 0]

\* C2: for every zoom in [0,29] and x, y in [0, 2^zoom), encode_xyz succeeds and
\* decode_xyz of its result succeeds and returns the same zoom, x and y, with
\* the quadkey integer that sits in the low 58 bits of the id.
C2_XyzRoundTrip ==
    InXyzRange(xyzTile) =>
        /\ xyzPc \in {"encoded", "decoded"} => xyzEnc.ok
        /\ xyzPc = "decoded" =>
              /\ xyzDec.ok
              /\ xyzDec.value.zoom = xyzTile.zoom
              /\ xyzDec.value.x = xyzTile.x
              /\ xyzDec.value.y = xyzTile.y
              /\ xyzDec.value.quadkey_integer = Low58(xyzEnc.value)

C2_Witness ==
    /\ xyzPc = "decoded"
    /\ xyzTile = [zoom |-> 29, x |-> 2 ^ 29 - 1, y |-> 2 ^ 29 - 3]
    /\ xyzDec.ok
    /\ xyzDec.value.y = 2 ^ 29 - 3

\* C9: for every zoom in [0,29] and x, y in [0, 2^zoom) the id of encode_xyz has
\* zoom in its top 6 bits and a quadkey below 4^zoom in its low 58 bits whose
\* base-4 digit k is x_bit_k | (y_bit_k << 1); zoom > 29 and coordinates
\* outside [0, 2^zoom) are rejected with INVALID_FIELD_VALUE.
C9_XyzPacking ==
    xyzPc \in {"encoded", "decoded"} =>
        /\ InXyzRange(xyzTile) =>
              /\ xyzEnc.ok
              /\ Top6(xyzEnc.value) = BigInt(xyzTile.zoom)
              /\ BigLess(Low58(xyzEnc.value), Pow4(xyzTile.zoom))
              /\ \A k \in 0..(xyzTile.zoom - 1) :
                    /\ xyzEnc.value[2 * k] = (xyzTile.x \div (2 ^ k)) % 2
                    /\ xyzEnc.value[2 * k + 1] = (xyzTile.y \div (2 ^ k)) % 2
        /\ (xyzTile.zoom > 29 \/ (xyzTile.zoom \in 0..29 /\ ~InXyzRange(xyzTile))) =>
              xyzEnc = Err("INVALID_FIELD_VALUE")

C9_Witness ==
    /\ xyzPc = "encoded"
    /\ xyzTile = [zoom |-> 3, x |-> 5, y |-> 2]
    /\ xyzEnc.ok
    /\ xyzEnc.value = BitOr(Shl(BigInt(3), 58), BigInt(25))



(***************************************************************************)
(* The round trip of encodeTile and decodeTile.                            *)
(***************************************************************************)
\* the numbers a dtype holds exactly, read off the binary64 pattern: the
\* integers of the width and signedness, the binary32 values (normal with 24
\* significant bits, or a multiple of 2^-149 below 2^-126), every finite
\* binary64 value; NaN for the float types
ByteWidth(dtype) ==
    CASE dtype \in {"uint8", "int8"} -> 1
      [] dtype \in {"uint16", "int16"} -> 2
      [] dtype \in {"uint32", "int32", "float32"} -> 4
      [] OTHER -> 8
IntegerExact(dtype, v) ==
    LET bits == 8 * ByteWidth(dtype)
        e == F64Exp(v) - 1023
    IN  /\ IsInteger(v)
        /\ IF dtype \in {"uint8", "uint16", "uint32"}
           THEN IsZero(v) \/ (F64Sign(v) = 0 /\ e < bits)
           ELSE \/ IsZero(v)
                \/ e < bits - 1
                \/ /\ F64Sign(v) = 1 /\ e = bits - 1
                   /\ F64MantHi(v) = 0 /\ F64MantLo(v) = 0
Binary32Exact(v) ==
    LET e == F64Exp(v) - 1023
    IN  \/ IsNaN(v)
        \/ IsZero(v)
        \/ /\ IsFinite(v)
           /\ e <= 127 /\ e >= -149
           /\ F64MantLo(v) = 0 /\ F64MantHi(v) % 32 = 0
           /\ e < -126 => (F64MantHi(v) \div 32) % (2 ^ (-126 - e)) = 0
Representable(dtype, v) ==
    CASE dtype = "float32" -> Binary32Exact(v)
      [] dtype = "float64" -> IsNaN(v) \/ IsFinite(v)
      [] OTHER -> IntegerExact(dtype, v)
\* a u64 that is a tile id of the mesh kind
ValidTileId(id, meshKind) ==
    \/ meshKind = "jis-x0410"
    \/ /\ meshKind = "xyz"
       /\ \E zoom \in 0..29 :
             /\ \A i \in 0..5 : id[58 + i] = (zoom \div (2 ^ i)) % 2
             /\ \A i \in (2 * zoom)..57 : id[i] = 0
InRange(v, low, high) ==
    IsInteger(v) /\ ~NumLess(v, Num(low)) /\ ~NumLess(high, v)
ValidInput(given, streams) ==
    /\ given.tile_id.integral
    /\ ~given.tile_id.neg
    /\ ValidTileId(given.tile_id.mag, given.mesh_kind)
    /\ given.dtype \in DTypes
    /\ given.endianness \in {"little", "big"}
    /\ InRange(given.rows, 1, F64FromParts(0, 31, 2147483647))
    /\ InRange(given.cols, 1, F64FromParts(0, 31, 2147483647))
    /\ InRange(given.bands, 1, Num(255))
    /\ Len(given.data) = ToInt(given.rows) * ToInt(given.cols) * ToInt(given.bands)
    /\ \A i \in 1..Len(given.data) : Representable(given.dtype, given.data[i])
    /\ \/ given.compression \in {"undefined", "none"}
       \/ given.compression = "deflate-raw" /\ streams
    /\ \/ given.no_data \in {Undefined, Null}
       \/ IsFinite(given.no_data) /\ Representable(given.dtype, given.no_data)
\* equality of two numbers, or of two no_data values, as === has it on
\* numbers, and with NaN equal to NaN
SameValue(a, b) ==
    \/ a = b
    \/ a \notin {Undefined, Null} /\ b \notin {Undefined, Null} /\ IsZero(a) /\ IsZero(b)
SameValues(a, b) ==
    Len(a) = Len(b) /\ \A i \in 1..Len(a) : SameValue(a[i], b[i])
SameHeader(a, b) ==
    /\ [a EXCEPT !.no_data = Null] = [b EXCEPT !.no_data = Null]
    /\ SameValue(a.no_data, b.no_data)
\* the header that encodeTile is to return for an input
DefaultsApplied(given, header) ==
    /\ header.compression
          = (IF given.compression = "undefined" THEN "none" ELSE given.compression)
    /\ SameValue(header.no_data,
                 IF given.no_data = Undefined THEN Null ELSE given.no_data)

\* C1: for every valid input (tile id valid for its mesh kind, dimensions in
\* range, exactly rows * cols * bands values each representable in the dtype,
\* a supported compression mode), encodeTile succeeds, decodeTile of its
\* bytes succeeds, the decoded values equal the input's values element by
\* element, and the decoded header equals the header encodeTile returned, a
\* missing compression appearing as none and a missing no_data as null.
C1_RoundTrip ==
    (encPc # "idle" /\ ValidInput(input, hasStreams)) =>
        /\ encPc = "done" => encResult.ok
        /\ origin = FromEncoder =>
              /\ decStage # "FAILED"
              /\ decStage = "SAMPLES_DECODED" =>
                    /\ SameValues(decResult.value.data, input.data)
                    /\ SameHeader(decResult.value.header, encResult.value.header)
                    /\ DefaultsApplied(input, decResult.value.header)
\* the same for the inputs whose float32 values lie within the limits
\* -3.4e38 and 3.4e38 of DTYPE_MIN_MAX
WithinFloat32Limits(given) ==
    given.dtype = "float32" =>
        /\ \A i \in 1..Len(given.data) :
              IsNaN(given.data[i]) \/ ~ValueRejected("float32", given.data[i])
        /\ given.no_data \notin {Undefined, Null}
              => ~ValueRejected("float32", given.no_data)
C1_RoundTripWithinLimits ==
    (encPc # "idle" /\ WithinFloat32Limits(input)) => C1_RoundTrip
C1_Witness ==
    /\ encPc = "done"
    /\ ValidInput(input, hasStreams)
    /\ input.dtype = "float32" /\ input.compression = "undefined"
    /\ decStage = "SAMPLES_DECODED"
    /\ decResult.value.data = <<HALF, FLOAT32_TINY>>

(***************************************************************************)
(* One byte of a tile replaced.                                            *)
(***************************************************************************)
StructuralCodes == {"HEADER_CHECKSUM_MISMATCH", "INVALID_MAGIC", "UNSUPPORTED_VERSION"}
HeaderTampered == origin.kind = "tampered" /\ origin.offset < 54
\* the error that a replaced byte at the offset is to give
ExpectedOfOffset(offset) ==
    IF offset < 4 THEN "INVALID_MAGIC"
    ELSE IF offset = 4 THEN "UNSUPPORTED_VERSION"
    ELSE "HEADER_CHECKSUM_MISMATCH"

PayloadTampered ==
    origin.kind = "tampered" /\ origin.offset >= 58 /\ file[16] = 0
\* C4: in a tile that encodeTile produced with compression none, with one
\* byte from offset 58 on replaced by a different value, decodeTile fails
\* with PAYLOAD_CHECKSUM_MISMATCH and at no other check, while inspectTile,
\* which reads the header only, still accepts the tile.
C4_PayloadMutation ==
    PayloadTampered =>
        /\ file[origin.offset + 1] # origin.old
        /\ ~NotCalled(insResult) => insResult.ok
        /\ decStage \notin {"CRC_VERIFIED", "SAMPLES_DECODED"}
        /\ decStage = "FAILED" =>
              ~decResult.ok /\ decResult.code = "PAYLOAD_CHECKSUM_MISMATCH"
C4_Witness ==
    /\ PayloadTampered /\ origin.offset = Len(file) - 1
    /\ input.dtype = "float32"
    /\ decStage = "FAILED" /\ decResult.code = "PAYLOAD_CHECKSUM_MISMATCH"

(***************************************************************************)
(* The order of the rejections.  Each check is stated on the bytes of the  *)
(* buffer; a check is looked at only when those before it passed.          *)
(***************************************************************************)
Field(bytes, offset, n) == SubSeq(bytes, offset + 1, offset + n)
\* the little-endian value of a field when it is below 2^24, and 2^24 for
\* every larger value: no buffer at hand is that long
Capped(field) ==
    IF \E k \in 4..Len(field) : field[k] # 0 THEN 2 ^ 24
    ELSE field[1] + 256 * field[2] + 65536 * field[3]
TooShort(bytes) == Len(bytes) < 58
BadMagic(bytes) == Field(bytes, 0, 4) # <<77, 84, 73, 49>>
BadVersion(bytes) == bytes[5] # 1
BadHeaderCrc(bytes) == Field(bytes, 54, 4) # crc32(Field(bytes, 0, 54))
BadEnumOrDimension(bytes) ==
    \/ bytes[14] \notin {1, 2}
    \/ bytes[15] % 128 \notin 0..7
    \/ bytes[16] \notin {0, 1}
    \/ Field(bytes, 16, 4) = <<0, 0, 0, 0>>
    \/ Field(bytes, 20, 4) = <<0, 0, 0, 0>>
    \/ bytes[25] = 0
BadTileId(bytes) == bytes[14] = 2 /\ ~ValidTileId(readU64LE(bytes, 5), "xyz")
WidthOfCode(code) == CASE code \in {0, 1} -> 1 [] code \in {2, 3} -> 2
                       [] code \in {4, 5, 6} -> 4 [] OTHER -> 8
\* the no_data slot: the kind byte, the zero padding, and a finite value
BadNoData(bytes) ==
    LET kind == bytes[26]
        slot == Field(bytes, 26, 8)
        code == bytes[15] % 128
        w == WidthOfCode(code)
        little == bytes[15] < 128
        \* the value's bytes, the most significant first
        be == IF little THEN [i \in 1..w |-> slot[w + 1 - i]]
              ELSE [i \in 1..w |-> slot[8 - w + i]]
        padding == IF little THEN (w + 1)..8 ELSE 1..(8 - w)
    IN  \/ kind \notin {0, 1}
        \/ kind = 0 /\ slot # <<0, 0, 0, 0, 0, 0, 0, 0>>
        \/ kind = 1 /\ \E i \in padding : slot[i] # 0
        \/ kind = 1 /\ code = 6 /\ be[1] % 128 = 127 /\ be[2] >= 128
        \/ kind = 1 /\ code = 7 /\ be[1] % 128 = 127 /\ be[2] >= 240
\* a payload length of 2^53 or more
UnsafeLength(bytes) ==
    \E offset \in {34, 42} : bytes[offset + 7] >= 32 \/ bytes[offset + 8] # 0
ShortOfPayload(bytes) == Len(bytes) - 58 < Capped(Field(bytes, 42, 8))
Unsupported(bytes, streams) == bytes[16] = 1 /\ ~streams
Stored(bytes) == Field(bytes, 58, Capped(Field(bytes, 42, 8)))
Raw(bytes) == IF bytes[16] = 0 THEN Ok(Stored(bytes)) ELSE Inflate(Stored(bytes))
BadStream(bytes) == ~Raw(bytes).ok
BadRawLength(bytes) == Len(Raw(bytes).value) # Capped(Field(bytes, 34, 8))
BadPayloadCrc(bytes) == crc32(Raw(bytes).value) # Field(bytes, 50, 4)
BadSampleLength(bytes) ==
    Len(Raw(bytes).value)
        # Capped(Field(bytes, 16, 4)) * Capped(Field(bytes, 20, 4)) * bytes[25]
             * WidthOfCode(bytes[15] % 128)

\* the order of the checks of inspectTile, with the two that the list of the
\* specification leaves out: the length of the buffer, and the lengths that
\* are no safe integers
InspectOutcome(bytes) ==
    IF TooShort(bytes) THEN "INVALID_HEADER_LENGTH"
    ELSE IF BadMagic(bytes) THEN "INVALID_MAGIC"
    ELSE IF BadVersion(bytes) THEN "UNSUPPORTED_VERSION"
    ELSE IF BadHeaderCrc(bytes) THEN "HEADER_CHECKSUM_MISMATCH"
    ELSE IF BadEnumOrDimension(bytes) THEN "INVALID_FIELD_VALUE"
    ELSE IF BadTileId(bytes) THEN "INVALID_FIELD_VALUE"
    ELSE IF BadNoData(bytes) THEN "INVALID_FIELD_VALUE"
    ELSE IF UnsafeLength(bytes) THEN "INVALID_HEADER_LENGTH"
    ELSE IF ShortOfPayload(bytes) THEN "INVALID_PAYLOAD_LENGTH"
    ELSE "accepted"
\* and of decodeTile, with the check of the runtime's support left out there
DecodeOutcome(bytes, streams) ==
    IF InspectOutcome(bytes) # "accepted" THEN InspectOutcome(bytes)
    ELSE IF Unsupported(bytes, streams) THEN "UNSUPPORTED_COMPRESSION"
    ELSE IF BadStream(bytes) THEN "DECOMPRESSION_FAILED"
    ELSE IF BadRawLength(bytes) THEN "INVALID_PAYLOAD_LENGTH"
    ELSE IF BadPayloadCrc(bytes) THEN "PAYLOAD_CHECKSUM_MISMATCH"
    ELSE IF BadSampleLength(bytes) THEN "INVALID_PAYLOAD_LENGTH"
    ELSE "accepted"
\* the order as the specification lists it
ListedInspectOutcome(bytes) ==
    IF BadMagic(bytes) THEN "INVALID_MAGIC"
    ELSE IF BadVersion(bytes) THEN "UNSUPPORTED_VERSION"
    ELSE IF BadHeaderCrc(bytes) THEN "HEADER_CHECKSUM_MISMATCH"
    ELSE IF BadEnumOrDimension(bytes) THEN "INVALID_FIELD_VALUE"
    ELSE IF BadTileId(bytes) THEN "INVALID_FIELD_VALUE"
    ELSE IF BadNoData(bytes) THEN "INVALID_FIELD_VALUE"
    ELSE IF ShortOfPayload(bytes) THEN "INVALID_PAYLOAD_LENGTH"
    ELSE "accepted"
ListedDecodeOutcome(bytes) ==
    IF ListedInspectOutcome(bytes) # "accepted" THEN ListedInspectOutcome(bytes)
    ELSE IF BadStream(bytes) THEN "DECOMPRESSION_FAILED"
    ELSE IF BadRawLength(bytes) THEN "INVALID_PAYLOAD_LENGTH"
    ELSE IF BadPayloadCrc(bytes) THEN "PAYLOAD_CHECKSUM_MISMATCH"
    ELSE IF BadSampleLength(bytes) THEN "INVALID_PAYLOAD_LENGTH"
    ELSE "accepted"
OutcomeOf(result) == IF result.ok THEN "accepted" ELSE result.code

FirstOfHeader(bytes) ==
    IF Field(bytes, 0, 4) # <<77, 84, 73, 49>> THEN "INVALID_MAGIC"
    ELSE IF bytes[5] # 1 THEN "UNSUPPORTED_VERSION"
    ELSE "neither"
\* C6: for a buffer of 58 bytes or more whose bytes 0..3 are not "MTI1",
\* inspectTile and decodeTile fail with INVALID_MAGIC, whatever the rest of
\* the buffer holds; for one with the magic whose byte 4 is not 1, they fail
\* with UNSUPPORTED_VERSION, whatever the header CRC and the other fields hold.
C6_MagicThenVersion ==
    (origin.kind # "none" /\ Len(file) >= 58 /\ FirstOfHeader(file) # "neither") =>
        /\ ~NotCalled(insResult) =>
              ~insResult.ok /\ insResult.code = FirstOfHeader(file)
        /\ decStage \in {"IDLE", "NEW", "FAILED"}
        /\ decStage = "FAILED" =>
              ~decResult.ok /\ decResult.code = FirstOfHeader(file)
\* the magic and the version are both wrong, under a header CRC that holds
C6_Witness ==
    /\ origin.kind = "forged" /\ Len(file) >= 58
    /\ BadMagic(file) /\ BadVersion(file) /\ ~BadHeaderCrc(file)
    /\ ~insResult.ok /\ insResult.code = "INVALID_MAGIC"

(***************************************************************************)
(* The stages of decodeTile.                                               *)
(***************************************************************************)
Stages ==
    <<"NEW", "HEADER_PARSED", "PAYLOAD_LOADED", "DECOMPRESSED", "CRC_VERIFIED",
      "SAMPLES_DECODED">>
Ended == {"FAILED", "SAMPLES_DECODED"}
\* one step of a call: to the next stage, or from a stage that is not the
\* last to the failure, which sets the error; the result is set by the step
\* that ends the call, and by no other
StageStep ==
    /\ decStage' # decStage =>
          \/ decStage = "IDLE" /\ decStage' = "NEW"
          \/ \E i \in 1..5 : decStage = Stages[i] /\ decStage' = Stages[i + 1]
          \/ \E i \in 1..5 : decStage = Stages[i] /\ decStage' = "FAILED"
    /\ decResult' # decResult => decStage' # decStage /\ decStage' \in Ended
    /\ (decStage' # decStage /\ decStage' = "FAILED") => ~decResult'.ok
    /\ (decStage' # decStage /\ decStage' = "SAMPLES_DECODED") => decResult'.ok
    /\ decStage \in Ended => decStage' = decStage /\ decResult' = decResult
\* the payload that passed the stage CRC_VERIFIED has the checksum that the
\* header stores at offset 50, and it is the payload that is returned
CrcVerified ==
    /\ decStage \in {"CRC_VERIFIED", "SAMPLES_DECODED"} =>
          crc32(decLocals.decompressed.value) = Field(file, 50, 4)
    /\ decResult.ok =>
          /\ decStage = "SAMPLES_DECODED"
          /\ decResult.value.payload = decLocals.decompressed.value
\* C7: a call of decodeTile goes through NEW, HEADER_PARSED, PAYLOAD_LOADED,
\* DECOMPRESSED, CRC_VERIFIED, SAMPLES_DECODED in this order, one stage at a
\* time; a failure at a stage ends the call with its error, after which no
\* stage runs and nothing changes; decoded values are returned only for a
\* payload whose CRC has been verified against the header.
C7_StagePipeline == [][StageStep]_vars /\ []CrcVerified
\* a call that fails at its last stage, after the payload CRC was verified
C7_Witness ==
    /\ origin.kind = "forged" /\ Len(file) >= 58
    /\ decStage = "FAILED" /\ decResult.code = "INVALID_PAYLOAD_LENGTH"
    /\ InspectOutcome(file) = "accepted"
    /\ ~BadStream(file) /\ ~BadRawLength(file) /\ ~BadPayloadCrc(file)
    /\ BadSampleLength(file)

(***************************************************************************)
(* Tile ids and mesh kinds.                                                *)
(***************************************************************************)
\* the outcome for a tile id: accepted exactly when it is one of the mesh kind
IdOutcome(result, id, meshKind) ==
    IF ValidTileId(id, meshKind) THEN result.ok
    ELSE ~result.ok /\ result.code = "INVALID_FIELD_VALUE"
\* C8: under the XYZ mesh a u64 tile id is accepted exactly when its top 6
\* bits are at most 29 and its low 58 bits have no bit set at position
\* 2 * zoom or above; every other id makes decodeXyzTileId,
\* assertValidXyzTileId, encodeTile, inspectTile and decodeTile fail with
\* INVALID_FIELD_VALUE.  Under the JIS X0410 mesh every u64 id is accepted.
C8_TileIdValidity ==
    /\ xyzPc = "given" =>
          /\ IdOutcome(xyzDec, xyzGiven, "xyz")
          /\ IdOutcome(xyzAssert, xyzGiven, "xyz")
    /\ (/\ encPc = "done"
        /\ input.tile_id.integral /\ ~input.tile_id.neg
        /\ input.mesh_kind \in {"jis-x0410", "xyz"}) =>
          IdOutcome(encResult, input.tile_id.mag, input.mesh_kind)
    /\ origin.kind = "forged" =>
          /\ ~NotCalled(insResult) =>
                IdOutcome(insResult, readU64LE(file, 5), CODE_TO_MESH_KIND[file[14]])
          /\ decStage \in Ended =>
                IdOutcome(decResult, readU64LE(file, 5), CODE_TO_MESH_KIND[file[14]])
          /\ decStage \in {"IDLE", "NEW"} \cup Ended
                \/ ValidTileId(readU64LE(file, 5), CODE_TO_MESH_KIND[file[14]])
\* the id (1 << 58) | 4, of zoom 1 with a bit at position 2 * zoom, in the
\* header of an XYZ tile
C8_Witness ==
    /\ origin.kind = "forged" /\ file[14] = 2
    /\ readU64LE(file, 5) = GivenId(1, FALSE, 2)
    /\ decStage = "FAILED" /\ decResult.code = "INVALID_FIELD_VALUE"

(***************************************************************************)
(* The no-data field of an encoded tile.                                   *)
(***************************************************************************)
\* C10: in a tile that encodeTile produced, with no_data absent byte 25 is 0
\* and bytes 26..33 are zero; with no_data present byte 25 is 1, the value is
\* written with the dtype and byte order of the tile into w = sizeof(dtype)
\* bytes, at offsets 0..w-1 of the slot for little-endian and 8-w..7 for
\* big-endian, and the other bytes of the slot are zero.
C10_NoDataField ==
    (encPc = "done" /\ encResult.ok) =>
        LET bytes == encResult.value.bytes
            slot == Field(bytes, 26, 8)
            w == ByteWidth(input.dtype)
            little == input.endianness = "little"
            first == IF little THEN 0 ELSE 8 - w
            scalar == DTypeWrite(input.dtype, input.no_data, little)
        IN  IF input.no_data \in {Undefined, Null}
            THEN bytes[26] = 0 /\ slot = <<0, 0, 0, 0, 0, 0, 0, 0>>
            ELSE /\ bytes[26] = 1
                 /\ Len(scalar) = w
                 /\ \A i \in 0..7 :
                       slot[i + 1] = (IF i >= first /\ i < first + w
                                      THEN scalar[i - first + 1] ELSE 0)
\* a big-endian int16 tile with the no_data value 4660 = 0x1234
C10_Witness ==
    /\ encPc = "done" /\ encResult.ok
    /\ input.dtype = "int16" /\ input.endianness = "big"
    /\ input.no_data = Num(4660)
    /\ Field(encResult.value.bytes, 25, 9) = <<1, 0, 0, 0, 0, 0, 0, 18, 52>>

(***************************************************************************)
(* The no-data field on read.                                              *)
(***************************************************************************)
\* a header of 58 bytes that passes the magic, the version and the header CRC
Sealed58(bytes) ==
    ~TooShort(bytes) /\ ~BadMagic(bytes) /\ ~BadVersion(bytes) /\ ~BadHeaderCrc(bytes)
\* C11: a header that passes the magic, version and header-CRC checks and
\* whose no-data field is not well formed (kind 0 with a nonzero byte in the
\* slot, a kind other than 0 and 1, kind 1 with a nonzero padding byte, or
\* kind 1 with a value that is not finite) is rejected by inspectTile and by
\* decodeTile with INVALID_FIELD_VALUE, and no header is returned for it.
C11_NoDataOnRead ==
    (origin.kind # "none" /\ Sealed58(file) /\ BadNoData(file)) =>
        /\ ~NotCalled(insResult) =>
              ~insResult.ok /\ insResult.code = "INVALID_FIELD_VALUE"
        /\ decStage \in {"IDLE", "NEW", "FAILED"}
        /\ decStage = "FAILED" =>
              ~decResult.ok /\ decResult.code = "INVALID_FIELD_VALUE"
\* a big-endian uint16 header, all other fields in order, with the value in
\* the first two bytes of its slot, where the padding is
C11_Witness ==
    /\ origin.kind = "forged" /\ Sealed58(file)
    /\ ~BadEnumOrDimension(file) /\ ~BadTileId(file)
    /\ file[15] = 130 /\ Field(file, 25, 9) = <<1, 52, 18, 0, 0, 0, 0, 0, 0>>
    /\ ~insResult.ok /\ insResult.code = "INVALID_FIELD_VALUE"

(***************************************************************************)
(* The limits of the dimensions on encode.                                 *)
(***************************************************************************)
\* the fields of an input other than its dimensions and values are valid
OtherwiseValid(given, streams) ==
    /\ given.tile_id.integral /\ ~given.tile_id.neg
    /\ given.mesh_kind \in {"jis-x0410", "xyz"}
    /\ ValidTileId(given.tile_id.mag, given.mesh_kind)
    /\ given.dtype \in DTypes
    /\ given.endianness \in {"little", "big"}
    /\ \/ given.compression \in {"undefined", "none"}
       \/ given.compression = "deflate-raw" /\ streams
    /\ \/ given.no_data \in {Undefined, Null}
       \/ IsFinite(given.no_data) /\ Representable(given.dtype, given.no_data)
BeyondLimits(given) ==
    \/ IsZero(given.rows) \/ IsZero(given.cols) \/ IsZero(given.bands)
    \/ NumLess(F64FromParts(0, 31, 2147483647), given.rows)
    \/ NumLess(F64FromParts(0, 31, 2147483647), given.cols)
    \/ NumLess(Num(255), given.bands)
\* C12: encodeTile fails with INVALID_FIELD_VALUE and returns no bytes when
\* bands > 255, rows = 0, cols = 0, bands = 0, or rows or cols is above
\* 2^32 - 1, whatever the other fields are among those that are valid.
C12_DimensionLimits ==
    (encPc # "idle" /\ OtherwiseValid(input, hasStreams) /\ BeyondLimits(input)) =>
        /\ encPc = "done"
        /\ ~encResult.ok /\ encResult.code = "INVALID_FIELD_VALUE"
        /\ origin.kind = "none" /\ file = <<>>
\* 1 x 1 x 256 with 256 values, to be compressed
C12_Witness ==
    /\ encPc = "done" /\ OtherwiseValid(input, hasStreams)
    /\ input.rows = Num(1) /\ input.cols = Num(1) /\ input.bands = Num(256)
    /\ Len(input.data) = 256 /\ input.compression = "deflate-raw"
    /\ ~encResult.ok /\ encResult.code = "INVALID_FIELD_VALUE"

(***************************************************************************)
(* The payload CRC is that of the uncompressed payload.                    *)
(***************************************************************************)
\* a compressed tile agrees with the uncompressed tile of the same input
AgreesWithPlain(plain) ==
    /\ plain.ok
    /\ encResult.value.header.checksum.payload_crc32
          = plain.value.header.checksum.payload_crc32
    /\ Field(encResult.value.bytes, 50, 4) = Field(plain.value.bytes, 50, 4)
    /\ Field(plain.value.bytes, 50, 4)
          = crc32(Field(plain.value.bytes, 58, Len(plain.value.bytes) - 58))
    /\ (origin = FromEncoder /\ decStage = "SAMPLES_DECODED") =>
          /\ decResult.value.payload
                = Field(plain.value.bytes, 58, Len(plain.value.bytes) - 58)
          /\ Ok(decResult.value.data)
                = decodeValues(input.dtype, decResult.value.payload,
                               input.endianness = "little")
          /\ SameValues(decResult.value.data, input.data)
\* C13: the payload CRC of the header is the CRC-32 of the uncompressed
\* payload: a tile encoded with deflate-raw has the payload_crc32 of the tile
\* encoded from the same input with compression none, the two decode to the
\* same payload bytes and values, and decodeTile compares the stored CRC with
\* the CRC of the decompressed bytes.
C13_CrcOfUncompressed ==
    /\ (encPc = "done" /\ encResult.ok /\ input.compression = "deflate-raw") =>
          AgreesWithPlain(EncodedTile([input EXCEPT !.compression = "none"], hasStreams))
    /\ (origin = FromEncoder /\ decStage \in {"CRC_VERIFIED", "SAMPLES_DECODED"}) =>
          /\ crc32(decLocals.decompressed.value) = Field(file, 50, 4)
          /\ crc32(decLocals.decompressed.value)
                = FromHex(encResult.value.header.checksum.payload_crc32)
\* a compressed tile of four uint16 values, decoded
C13_Witness ==
    /\ encPc = "done" /\ encResult.ok /\ input.compression = "deflate-raw"
    /\ Len(file) = 58 + 5 + 8
    /\ origin = FromEncoder /\ decStage = "SAMPLES_DECODED"
    /\ decResult.value.data = <<Num(1), Num(2), Num(3), Num(4)>>
    /\ Len(decResult.value.payload) = 8

(***************************************************************************)
(* The payload sizes of a header.                                          *)
(***************************************************************************)
\* the two equalities on a header that was returned
SizesHold(header) ==
    /\ ToInt(header.payload.uncompressed_bytes)
          = ToInt(header.dimensions.rows) * ToInt(header.dimensions.cols)
               * ToInt(header.dimensions.bands) * ByteWidth(header.dtype)
    /\ header.compression = "none" =>
          header.payload.compressed_bytes = header.payload.uncompressed_bytes
\* and their failure on the bytes of a header
SizesBroken(bytes) ==
    \/ Capped(Field(bytes, 34, 8))
          # Capped(Field(bytes, 16, 4)) * Capped(Field(bytes, 20, 4)) * bytes[25]
               * WidthOfCode(bytes[15] % 128)
    \/ bytes[16] = 0 /\ Field(bytes, 42, 8) # Field(bytes, 34, 8)
\* C14: a header returned by encodeTile or by decodeTile has
\* uncompressed_bytes = rows * cols * bands * sizeof(dtype) and, with
\* compression none, compressed_bytes = uncompressed_bytes; decodeTile
\* rejects every tile whose header breaks one of the two equalities.
C14_PayloadSizes ==
    /\ (encPc = "done" /\ encResult.ok) => SizesHold(encResult.value.header)
    /\ decResult.ok => SizesHold(decResult.value.header)
    /\ (origin.kind # "none" /\ ~TooShort(file) /\ SizesBroken(file)) =>
          /\ decStage # "SAMPLES_DECODED"
          /\ ~decResult.ok
\* an uncompressed tile of 8 payload bytes whose header says 7 stored bytes,
\* under a header CRC that holds
C14_Witness ==
    /\ origin.kind = "forged" /\ Sealed58(file)
    /\ file[16] = 0 /\ Field(file, 42, 8) = U64LE(7) /\ Field(file, 34, 8) = U64LE(8)
    /\ InspectOutcome(file) = "accepted"
    /\ decStage = "FAILED" /\ decResult.code = "INVALID_PAYLOAD_LENGTH"

(***************************************************************************)
(* The stored payload length and the length of the buffer.                 *)
(***************************************************************************)
\* C15: for every buffer that inspectTile or decodeTile accepts, the stored
\* payload length of the header (compressed_bytes) is the number of bytes
\* that follow the 58 bytes of the header in the buffer.
C15_StoredLength ==
    origin.kind # "none" =>
        /\ insResult.ok =>
              ToInt(insResult.value.header.payload.compressed_bytes) = Len(file) - 58
        /\ decResult.ok =>
              ToInt(decResult.value.header.payload.compressed_bytes) = Len(file) - 58
\* a tile of 8 payload bytes with one byte after them, decoded
C15_Witness ==
    /\ origin.kind = "forged" /\ origin.patches = {}
    /\ Len(file) = 58 + 9 /\ Field(file, 42, 8) = U64LE(8)
    /\ decStage = "SAMPLES_DECODED" /\ decResult.ok
    /\ decResult.value.data = <<Num(1), Num(2), Num(3), Num(4)>>

(***************************************************************************)
(* Buffers shorter than the header, or than the payload declared.          *)
(***************************************************************************)
\* a payload length field of 2^53 or more
UnsafeField(bytes, offset) == bytes[offset + 7] >= 32 \/ bytes[offset + 8] # 0
\* a header that passes every check before that of the stored payload length,
\* and declares an uncompressed length below 2^53
HeaderInOrder(bytes) ==
    /\ Sealed58(bytes)
    /\ ~BadEnumOrDimension(bytes) /\ ~BadTileId(bytes) /\ ~BadNoData(bytes)
    /\ ~UnsafeField(bytes, 34)
RejectedWith(code) ==
    /\ ~NotCalled(insResult) => ~insResult.ok /\ insResult.code = code
    /\ decStage \in {"IDLE", "NEW", "FAILED"}
    /\ decStage = "FAILED" => ~decResult.ok /\ decResult.code = code
\* the payload that decodeTile holds lies within the buffer
PayloadWithinBuffer ==
    decStage \in {"PAYLOAD_LOADED", "DECOMPRESSED", "CRC_VERIFIED", "SAMPLES_DECODED"} =>
        /\ FIXED_HEADER_LENGTH + Len(decLocals.payload) <= Len(file)
        /\ decLocals.payload = Field(file, FIXED_HEADER_LENGTH, Len(decLocals.payload))
        /\ Num(Len(decLocals.payload)) = decLocals.info.payload_length
\* C16, as amended: inspectTile and decodeTile reject every buffer shorter
\* than 58 bytes with INVALID_HEADER_LENGTH, whatever it holds, and every
\* buffer whose header is otherwise valid, with a stored payload length
\* below 2^53, and whose length is below 58 + the stored payload length with
\* INVALID_PAYLOAD_LENGTH; no payload byte beyond the end of the buffer is
\* read.
C16_ShortBuffers ==
    origin.kind # "none" =>
        /\ TooShort(file) => RejectedWith("INVALID_HEADER_LENGTH")
        /\ (HeaderInOrder(file) /\ ~UnsafeField(file, 42) /\ ShortOfPayload(file)) =>
              RejectedWith("INVALID_PAYLOAD_LENGTH")
        /\ PayloadWithinBuffer
\* C16, as stated: the same, for every header that is otherwise valid,
\* whatever the stored payload length it declares.
C16_ShortBuffersAnyLength ==
    origin.kind # "none" =>
        /\ TooShort(file) => RejectedWith("INVALID_HEADER_LENGTH")
        /\ (HeaderInOrder(file) /\ ShortOfPayload(file)) =>
              RejectedWith("INVALID_PAYLOAD_LENGTH")
        /\ PayloadWithinBuffer
\* a compressed tile that lost its last byte
C16_Witness ==
    /\ origin.kind = "forged" /\ origin.patches = {}
    /\ HeaderInOrder(file) /\ file[16] = 1
    /\ Len(file) = 58 + Capped(Field(file, 42, 8)) - 1
    /\ decStage = "FAILED" /\ decResult.code = "INVALID_PAYLOAD_LENGTH"

(***************************************************************************)
(* What inspectTile returns.                                               *)
(***************************************************************************)
\* the buffer with every byte after the header set to zero
PayloadBlanked(bytes) == Resized(Field(bytes, 0, FIXED_HEADER_LENGTH), Len(bytes))
\* C17: for a buffer that it accepts inspectTile returns header_length 58,
\* payload_offset 58 and payload_length = the stored payload length; it
\* neither decompresses the payload nor checks its CRC: what it returns
\* depends on the 58 bytes of the header and on the length of the buffer
\* only, so that a payload byte replaced by another changes nothing of it.
C17_InspectHeaderOnly ==
    (origin.kind # "none" /\ ~NotCalled(insResult)) =>
        /\ insResult.ok =>
              /\ insResult.value.header_length = 58
              /\ insResult.value.payload_offset = 58
              /\ insResult.value.payload_length
                    = insResult.value.header.payload.compressed_bytes
              /\ ToInt(insResult.value.payload_length) = Capped(Field(file, 42, 8))
        /\ ~TooShort(file) => insResult = inspectTile(PayloadBlanked(file))
        /\ (origin.kind = "tampered" /\ origin.offset >= 58) =>
              /\ file[origin.offset + 1] # origin.old
              /\ insResult.ok
              /\ SameHeader(insResult.value.header, encResult.value.header)
              /\ insResult = inspectTile([file EXCEPT ![origin.offset + 1] = origin.old])
\* a compressed tile with a byte of its deflate stream replaced, inspected
C17_Witness ==
    /\ origin.kind = "tampered" /\ origin.offset = 60
    /\ input.compression = "deflate-raw"
    /\ insResult.ok /\ insResult.value.payload_length = Num(13)
    /\ insResult.value.header.compression = "deflate-raw"

(***************************************************************************)
(* The order of the checks of encodeTile.  Each check is stated on the     *)
(* fields of the input; a check is looked at only when those before it     *)
(* passed.                                                                 *)
(***************************************************************************)
IdMalformed(given) ==
    \/ given.tile_id.type = "number" /\ ~given.tile_id.integral
    \/ given.tile_id.neg /\ given.tile_id.mag # BigZero
NoMeshKind(given) == given.mesh_kind \notin {"jis-x0410", "xyz"}
NoDType(given) == given.dtype \notin DTypes
NoEndianness(given) == given.endianness \notin {"little", "big"}
IdNotOfMesh(given) == ~ValidTileId(given.tile_id.mag, given.mesh_kind)
BadDimensions(given) ==
    \/ ~InRange(given.rows, 1, F64FromParts(0, 31, 2147483647))
    \/ ~InRange(given.cols, 1, F64FromParts(0, 31, 2147483647))
    \/ ~InRange(given.bands, 1, Num(255))
NoSuchCompression(given) == given.compression \notin {"undefined", "none", "deflate-raw"}
CompressionMissing(given, streams) == given.compression = "deflate-raw" /\ ~streams
NoDataNotFinite(given) ==
    given.no_data \notin {Undefined, Null} /\ ~IsFinite(given.no_data)
\* from the dimensions on the two orders are one
EncodeOutcomeFromDimensions(given, streams) ==
    IF BadDimensions(given) THEN "INVALID_FIELD_VALUE"
    ELSE IF NoSuchCompression(given) THEN "INVALID_FIELD_VALUE"
    ELSE IF CompressionMissing(given, streams) THEN "UNSUPPORTED_COMPRESSION"
    ELSE IF NoDataNotFinite(given) THEN "INVALID_FIELD_VALUE"
    ELSE "values"
\* the order of the source: the tile id is checked against the mesh kind
\* before the dtype and the byte order are looked at
EncodeOutcome(given, streams) ==
    IF IdMalformed(given) THEN "INVALID_FIELD_VALUE"
    ELSE IF NoMeshKind(given) THEN "MISSING_REQUIRED_FIELD"
    ELSE IF IdNotOfMesh(given) THEN "INVALID_FIELD_VALUE"
    ELSE IF NoDType(given) THEN "MISSING_REQUIRED_FIELD"
    ELSE IF NoEndianness(given) THEN "MISSING_REQUIRED_FIELD"
    ELSE EncodeOutcomeFromDimensions(given, streams)
\* the order as the specification lists it
ListedEncodeOutcome(given, streams) ==
    IF IdMalformed(given) THEN "INVALID_FIELD_VALUE"
    ELSE IF NoMeshKind(given) THEN "MISSING_REQUIRED_FIELD"
    ELSE IF NoDType(given) THEN "MISSING_REQUIRED_FIELD"
    ELSE IF NoEndianness(given) THEN "MISSING_REQUIRED_FIELD"
    ELSE IF IdNotOfMesh(given) THEN "INVALID_FIELD_VALUE"
    ELSE EncodeOutcomeFromDimensions(given, streams)
\* the call ended as the first failing check says; when only the values are
\* left to fail, it returned or failed on them
EndedAs(outcome) ==
    IF outcome = "values"
    THEN encPc = "done" => (encResult.ok \/ encResult.code = "INVALID_FIELD_VALUE")
    ELSE encPc = "done" /\ ~encResult.ok /\ encResult.code = outcome
\* C18, as amended: encodeTile applies its checks in the order: normalize the
\* tile id; mesh_kind; validity of the tile id for the mesh kind; dtype;
\* endianness; dimensions; compression (none by default); finiteness of
\* no_data; encoding of the values.  For an input that fails several checks
\* the error is that of the first failing check in this order: an invalid
\* XYZ tile id is reported before an invalid dtype.
C18_EncodeOrder ==
    encPc # "idle" => EndedAs(EncodeOutcome(input, hasStreams))
\* C18, as stated: the order is: normalize the tile id; mesh_kind, dtype,
\* endianness; validity of the tile id for the mesh kind; dimensions;
\* compression; no_data; the values, and an invalid dtype is reported before
\* an invalid XYZ tile id.
C18_ListedEncodeOrder ==
    encPc # "idle" => EndedAs(ListedEncodeOutcome(input, hasStreams))
\* an XYZ input whose tile id is not one of the mesh and whose dtype is none
C18_Witness ==
    /\ encPc = "done"
    /\ ~IdMalformed(input) /\ input.mesh_kind = "xyz" /\ IdNotOfMesh(input)
    /\ NoDType(input)
    /\ ~encResult.ok /\ encResult.code = "INVALID_FIELD_VALUE"

(***************************************************************************)
(* A runtime without raw DEFLATE.                                          *)
(***************************************************************************)
\* the checks that encodeTile makes before it looks at the compression mode
PassesToCompression(given) ==
    /\ ~IdMalformed(given) /\ ~NoMeshKind(given) /\ ~IdNotOfMesh(given)
    /\ ~NoDType(given) /\ ~NoEndianness(given) /\ ~BadDimensions(given)
\* C19: on a runtime without raw DEFLATE, encodeTile with compression
\* deflate-raw fails with UNSUPPORTED_COMPRESSION before a value is
\* serialized, and returns neither bytes nor a header that says deflate-raw;
\* decodeTile of a tile whose valid header says deflate-raw fails with
\* UNSUPPORTED_COMPRESSION before the payload is sliced, decompressed or
\* checksummed; with compression none encodeTile returns what it returns on
\* a runtime with raw DEFLATE, and decodeTile decodes the tile.
C19_NoDeflate ==
    ~hasStreams =>
        /\ (encPc # "idle" /\ input.compression = "deflate-raw"
                /\ PassesToCompression(input)) =>
              /\ encPc = "done"
              /\ ~encResult.ok /\ encResult.code = "UNSUPPORTED_COMPRESSION"
              /\ encLocals = NoLocals
              /\ origin.kind = "none" /\ file = <<>>
        /\ (encPc = "done" /\ encResult.ok) =>
              /\ encResult.value.header.compression = "none"
              /\ encResult.value.bytes[OFFSET_COMPRESSION + 1] = 0
        /\ (origin.kind # "none" /\ InspectOutcome(file) = "accepted"
                /\ file[OFFSET_COMPRESSION + 1] = 1) =>
              /\ decStage \in {"IDLE", "NEW", "HEADER_PARSED", "FAILED"}
              /\ decStage = "FAILED" =>
                    /\ ~decResult.ok /\ decResult.code = "UNSUPPORTED_COMPRESSION"
                    /\ DOMAIN decLocals = {"set", "info"}
        /\ (encPc = "done" /\ input.compression \in {"undefined", "none"}) =>
              encResult = EncodedTile(input, TRUE)
        /\ origin = FromEncoder => decStage # "FAILED"
\* the header of an uncompressed tile rewritten to say deflate-raw, with its
\* CRC, and given to decodeTile on a runtime without streams
C19_Witness ==
    /\ ~hasStreams
    /\ origin.kind = "forged" /\ origin.patches = {Patch(OFFSET_COMPRESSION, <<1>>)}
    /\ Sealed58(file) /\ Len(file) = 58 + 8
    /\ decStage = "FAILED" /\ decResult.code = "UNSUPPORTED_COMPRESSION"

(***************************************************************************)
(* The error codes.                                                        *)
(***************************************************************************)
\* the codes of the closed set other than INTERNAL_FAILURE
ExternalCodes ==
    {"INVALID_MAGIC", "UNSUPPORTED_VERSION", "INVALID_HEADER_LENGTH",
     "INVALID_FIELD_VALUE", "MISSING_REQUIRED_FIELD", "HEADER_CHECKSUM_MISMATCH",
     "INVALID_PAYLOAD_LENGTH", "UNSUPPORTED_COMPRESSION", "COMPRESSION_FAILED",
     "DECOMPRESSION_FAILED", "PAYLOAD_CHECKSUM_MISMATCH"}
EnumsGiven(given) ==
    /\ given.mesh_kind \in {"jis-x0410", "xyz"}
    /\ given.dtype \in DTypes
    /\ given.endianness \in {"little", "big"}
    /\ given.compression \in {"undefined", "none", "deflate-raw"}
\* C20: no buffer given to inspectTile or decodeTile, and no input of
\* encodeTile whose mesh_kind, dtype, endianness and compression are of
\* their enumerations, makes the call fail with INTERNAL_FAILURE: each
\* failure has one of the other codes of the closed set.
C20_NoInternalFailure ==
    /\ (~NotCalled(insResult) /\ ~insResult.ok) => insResult.code \in ExternalCodes
    /\ decStage = "FAILED" => ~decResult.ok /\ decResult.code \in ExternalCodes
    /\ (encPc = "done" /\ ~encResult.ok /\ EnumsGiven(input)) =>
          encResult.code \in ExternalCodes
\* a header with the dtype code 8, which no dtype has, under a header CRC
\* that holds
C20_Witness ==
    /\ origin.kind = "forged" /\ Sealed58(file)
    /\ file[OFFSET_DTYPE_ENDIAN + 1] = 8
    /\ ~BadTileId(file) /\ file[OFFSET_MESH_KIND + 1] = 1
    /\ decStage = "FAILED" /\ decResult.code = "INVALID_FIELD_VALUE"


(***************************************************************************)
(* Payload lengths that are no safe integers.                              *)
(***************************************************************************)
\* a buffer of 58 bytes or more with the magic, the version and a header
\* checksum that matches
PassesFraming(bytes) == Sealed58(bytes)
\* what the header holds besides its lengths is valid
FieldsValid(bytes) ==
    ~BadEnumOrDimension(bytes) /\ ~BadTileId(bytes) /\ ~BadNoData(bytes)
\* decodeTile has sliced no payload and has called no decompression
NothingSliced == decStage \in {"IDLE", "NEW", "FAILED"} /\ decLocals = NoLocals
\* C22, as amended: a header that passes the magic, version and header-CRC
\* checks and whose enum, tile-id, dimension and no_data fields are valid, but
\* that declares an uncompressed or a compressed payload length above
\* 2^53 - 1, is rejected by inspectTile and decodeTile with
\* INVALID_HEADER_LENGTH, whatever the length of the buffer, and decodeTile
\* slices no payload from it.
C22_UnsafeLengths ==
    (origin.kind # "none" /\ PassesFraming(file) /\ FieldsValid(file)
        /\ UnsafeLength(file)) =>
        /\ RejectedWith("INVALID_HEADER_LENGTH")
        /\ NothingSliced
\* C22, as stated: the same for every header that passes the magic, version
\* and header-CRC checks, whatever its other fields hold.
C22_UnsafeLengthsAnyFields ==
    (origin.kind # "none" /\ PassesFraming(file) /\ UnsafeLength(file)) =>
        /\ RejectedWith("INVALID_HEADER_LENGTH")
        /\ NothingSliced
\* a resealed header that declares 2^53 stored bytes and is valid otherwise,
\* given to decodeTile
C22_Witness ==
    /\ origin.kind = "forged"
    /\ PassesFraming(file) /\ FieldsValid(file)
    /\ UnsafeField(file, 42) /\ ~UnsafeField(file, 34)
    /\ decStage = "FAILED" /\ decResult = Err("INVALID_HEADER_LENGTH")

(***************************************************************************)
(* The headers that inspectTile returns.                                   *)
(***************************************************************************)
SampleCount(header) ==
    ToInt(header.dimensions.rows) * ToInt(header.dimensions.cols)
        * ToInt(header.dimensions.bands)
\* C23: every header that inspectTile returns has a sample count
\* rows * cols * bands above 0, uncompressed_bytes = sample count *
\* sizeof(dtype), and compressed_bytes = uncompressed_bytes when its
\* compression is none.
C23_InspectInvariants ==
    (origin.kind # "none" /\ insResult.ok) =>
        /\ SampleCount(insResult.value.header) > 0
        /\ SizesHold(insResult.value.header)
\* a header of 3 x 2 x 1 uint16 samples over 8 payload bytes, its checksum
\* computed again, returned by inspectTile
C23_Witness ==
    /\ origin.kind = "forged" /\ Sealed58(file)
    /\ Field(file, OFFSET_ROWS, 4) = <<3, 0, 0, 0>>
    /\ insResult.ok
    /\ insResult.value.header.dimensions.rows = Num(3)
    /\ insResult.value.header.payload.uncompressed_bytes = Num(8)

(***************************************************************************)
(* decodeTile against inspectTile on the same buffer.                      *)
(***************************************************************************)
\* decodeTile has ended, with a value or with an error
DecodeEnded == decStage \in {"FAILED", "SAMPLES_DECODED"}
\* C28: on a buffer for which inspectTile fails, decodeTile fails with the
\* same error code; when decodeTile succeeds, its header is the header that
\* inspectTile returns for the buffer, and the payload it returns has
\* header.payload.uncompressed_bytes bytes.
C28_DecodeRefinesInspect ==
    (origin.kind # "none" /\ DecodeEnded) =>
        \E inspected \in {inspectTile(file)} :
            /\ ~inspected.ok => decStage = "FAILED" /\ decResult = inspected
            /\ decStage = "SAMPLES_DECODED" =>
                  /\ inspected.ok /\ decResult.ok
                  /\ decResult.value.header = inspected.value.header
                  /\ Num(Len(decResult.value.payload))
                        = decResult.value.header.payload.uncompressed_bytes
\* a compressed tile decoded: its payload is longer than what is stored, and
\* its header is that of inspectTile
C28_Witness ==
    /\ origin = FromEncoder /\ decStage = "SAMPLES_DECODED"
    /\ decResult.value.header.compression = "deflate-raw"
    /\ decResult.value.header.payload.compressed_bytes
          # decResult.value.header.payload.uncompressed_bytes
    /\ decResult.value.header = inspectTile(file).value.header
    /\ Len(decResult.value.payload) = 8

(***************************************************************************)
(* The values that encodeTile rejects.                                     *)
(***************************************************************************)
IntegerDTypes == {"uint8", "int8", "uint16", "int16", "uint32", "int32"}
\* a value that the dtype does not hold: for an integer dtype a value with a
\* fraction or outside the range of the width and signedness, for every
\* dtype an infinity, and NaN for an integer dtype
NotHeld(dtype, v) ==
    \/ dtype \in IntegerDTypes /\ ~IntegerExact(dtype, v)
    \/ ~IsFinite(v) /\ ~(dtype \in {"float32", "float64"} /\ IsNaN(v))
ValuesAtFault(given) ==
    \/ Len(given.data)
          # ToInt(given.rows) * ToInt(given.cols) * ToInt(given.bands)
    \/ \E i \in 1..Len(given.data) : NotHeld(given.dtype, given.data[i])
\* the values that the payload of an uncompressed tile holds
ValuesWritten(given, bytes) ==
    decodeValues(given.dtype, Slice(bytes, FIXED_HEADER_LENGTH, Len(bytes)),
                 given.endianness = "little")
\* C25: for an input whose other fields pass their checks, encodeTile ends
\* with INVALID_FIELD_VALUE and returns no bytes when a value is not held by
\* the dtype (an integer dtype with a value that has a fraction or lies
\* outside the inclusive range of the dtype; any dtype with an infinity; an
\* integer dtype with NaN) or when the number of values is not
\* rows * cols * bands.  The integers that it writes are the values given:
\* none is wrapped or truncated.
C25_ValueRejection ==
    (encPc # "idle" /\ EncodeOutcome(input, hasStreams) = "values") =>
        /\ ValuesAtFault(input) =>
              encPc = "done" /\ encResult = Err("INVALID_FIELD_VALUE")
        /\ (encPc = "done" /\ encResult.ok /\ input.dtype \in IntegerDTypes
               /\ encResult.value.header.compression = "none") =>
              \E written \in {ValuesWritten(input, encResult.value.bytes)} :
                  written.ok /\ SameValues(written.value, input.data)
\* 65536 given for a uint16, after a value that is held
C25_Witness ==
    /\ encPc = "done" /\ input.dtype = "uint16"
    /\ EncodeOutcome(input, hasStreams) = "values"
    /\ Len(input.data) = 2
    /\ input.data[1] = Num(4660) /\ input.data[2] = Num(65536)
    /\ encResult = Err("INVALID_FIELD_VALUE")

(***************************************************************************)
(* The header that encodeTile returns, against the bytes it returns.       *)
(***************************************************************************)
\* C27: the header that encodeTile returns is the header that inspectTile
\* reads from the bytes returned with it, in every execution, also when the
\* caller changes mesh_kind, dtype, endianness, rows, cols or bands of the
\* input object while encodeTile is suspended at its await.
C27_HeaderOfBytes ==
    (encPc = "done" /\ encResult.ok) =>
        \E inspected \in {inspectTile(encResult.value.bytes)} :
            /\ inspected.ok
            /\ SameHeader(inspected.value.header, encResult.value.header)
\* encodeTile has returned, and the rows of the input object are no longer
\* those it was called with
C27_Witness ==
    /\ encPc = "done" /\ encResult.ok
    /\ encLocals.rows = Num(2) /\ input.rows = Num(4)
    /\ input.dtype = "uint16" /\ input.mesh_kind = "jis-x0410"
    /\ encResult.value.header.dimensions.rows = Num(4)
    /\ Field(encResult.value.bytes, OFFSET_ROWS, 4) = <<2, 0, 0, 0>>

(***************************************************************************)
(* The CSV projection of a grid of values.                                 *)
(***************************************************************************)
\* the fields of a line, joined by commas
CsvRow(fields) == Join(fields, <<",">>)
\* the lines of a text: what stands between its line feeds
RECURSIVE SplitLines(_, _)
SplitLines(text, line) ==
    IF Len(text) = 0 THEN <<line>>
    ELSE IF Head(text) = "\n" THEN <<line>> \o SplitLines(Tail(text), <<>>)
    ELSE SplitLines(Tail(text), Append(line, Head(text)))
\* the decimal numeral of a number below 1000
Numeral(n) ==
    IF n < 10 THEN <<DIGITS[n + 1]>>
    ELSE IF n < 100 THEN <<DIGITS[(n \div 10) + 1], DIGITS[(n % 10) + 1]>>
    ELSE <<DIGITS[(n \div 100) + 1], DIGITS[((n \div 10) % 10) + 1], DIGITS[(n % 10) + 1]>>
\* the line of the cell (row, col): col, row, and the values of its bands at
\* ((row * cols) + col) * bands + b
CellLine(given, row, col) ==
    CsvRow(<<Numeral(col), Numeral(row)>>
              \o [b \in 1..given.bands |->
                     Numeral(given.values[((row * given.cols) + col) * given.bands + b])])
Alone(call) ==
    IF call.kind = "encode" THEN EncodedTile(call.arg, hasStreams)
    ELSE DecodedTile(call.arg, hasStreams)
\* C21: any number of calls of encodeTile and decodeTile may be in flight
\* together, begun and resumed in any order: a call is suspended at no more
\* than one point, its await of the compression adapter, and whatever the
\* other calls do before and after their awaits, it returns or throws what
\* it returns or throws when it runs alone.
C21_ConcurrentCalls ==
    \A c \in Calls :
        /\ calls[c].pc \in {"idle", "awaiting", "done"}
        /\ calls[c].pc = "awaiting" => calls[c].locals.set /\ NotCalled(calls[c].result)
        /\ calls[c].pc = "done" => calls[c].result = Alone(calls[c])
\* two calls were suspended together: an encodeTile that returned while a
\* decodeTile of a compressed tile was still suspended, and that decodeTile
C21_Witness ==
    /\ hasStreams
    /\ calls[1].kind = "encode" /\ calls[1].pc = "done" /\ calls[1].result.ok
    /\ calls[1].arg = BaseInput
    /\ calls[1].inFlight = {2}
    /\ calls[2].kind = "decode" /\ calls[2].pc = "done" /\ calls[2].result.ok
    /\ calls[2].result.value.header.compression = "deflate-raw"
    /\ calls[2].result.value.data = <<Num(1), Num(2), Num(3), Num(4)>>

(***************************************************************************)
(* The bound and the order of an LRU cache.                                *)
(***************************************************************************)
\* the entries other than that of a key, in their order
Others(cache, key) == SelectSeq(cache, LAMBDA entry : entry.key # key)
\* the key of the Map that was used longest ago, the key inserted counting
\* as used now
LeastRecent(cache, usedBefore, key) ==
    CHOOSE k \in MapKeys(cache) \cup {key} :
        /\ k # key \/ MapKeys(cache) \subseteq {key}
        /\ \A other \in MapKeys(cache) \ {key, k} : usedBefore[k] < usedBefore[other]
\* C30: a Map that getFromLru and setToLru are applied to, in any sequence
\* of lookups and insertions, holds at most maxEntries entries after every
\* insertion; a lookup that hits returns the value and makes the entry the
\* most recently used, leaving the others as they were; an insertion leaves
\* the key as the most recently used entry and removes at most one other
\* entry, the one that was looked up or inserted longest ago.
C30_LruBound ==
    /\ Len(lruCache) <= lruMax
    /\ Cardinality(MapKeys(lruCache)) = Len(lruCache)
    /\ (lruLast.op = "get" /\ lruLast.key \notin MapKeys(lruLast.before)) =>
          lruLast.returned = Undefined /\ lruCache = lruLast.before
    /\ (lruLast.op = "get" /\ lruLast.key \in MapKeys(lruLast.before)) =>
          /\ lruLast.returned = MapGet(lruLast.before, lruLast.key)
          /\ lruCache[Len(lruCache)] = [key |-> lruLast.key, value |-> lruLast.returned]
          /\ Others(lruCache, lruLast.key) = Others(lruLast.before, lruLast.key)
    /\ lruLast.op = "set" =>
          LET evicted == (MapKeys(lruLast.before) \cup {lruLast.key}) \ MapKeys(lruCache)
          IN  /\ Cardinality(evicted) <= 1
              /\ evicted # {} =>
                    /\ Len(lruLast.before) = lruMax
                    /\ lruLast.key \notin MapKeys(lruLast.before)
                    /\ evicted = {LeastRecent(lruLast.before, lruLast.usedBefore,
                                              lruLast.key)}
              /\ lruMax > 0 =>
                    lruCache[Len(lruCache)] = [key |-> lruLast.key, value |-> lruLast.value]
              /\ \A i \in 1..Len(lruCache) :
                    lruCache[i].key # lruLast.key =>
                        lruCache[i].value = MapGet(lruLast.before, lruCache[i].key)
\* a full Map of two entries whose older entry was looked up, so that the
\* insertion of a third key removed the younger one
C30_Witness ==
    /\ lruMax = 2 /\ lruLast.op = "set" /\ lruLast.key = "c"
    /\ MapKeys(lruLast.before) = {"a", "b"}
    /\ lruLast.before[1].key = "b"
    /\ lruLast.usedBefore["a"] > lruLast.usedBefore["b"]
    /\ lruLast.usedBefore["a"] = 3 /\ lruLast.usedBefore["b"] = 2
    /\ MapKeys(lruCache) = {"a", "c"}

(***************************************************************************)
(* Requests that share a mesh tile, and requests that share a load.        *)
(***************************************************************************)
\* the requests that ran a load of their own as far as getMeshFeatures
Loaders == {r \in Requests : requests[r].role = "starter" /\ requests[r].fetch # 0}
\* C24: a request whose mesh tile is being fetched when it is made waits for
\* that fetch and starts none, so that a mesh tile URL has one fetch in
\* flight at most; no fetch is aborted, whichever requests are aborted; and
\* of two requests with different request URLs that wait for the same
\* fetch, the one that is not aborted itself ends with the vector tile of
\* its URL unless the fetch fails, whether or not the other one is aborted.
C24_SharedFetch ==
    /\ \A m \in MeshUrls : Cardinality(PendingFetches(m)) <= 1
    /\ \A f \in 1..Len(fetches) : fetches[f].state # "aborted"
    /\ \A r \in Loaders :
          requests[r].pending # {} => requests[r].fetch \in requests[r].pending
    /\ Len(fetches) = Cardinality({r \in Loaders : requests[r].pending = {}})
    /\ \A r1 \in Loaders, r2 \in Loaders :
          (/\ requests[r1].url # requests[r2].url
           /\ requests[r1].fetch = requests[r2].fetch
           /\ requests[r2].pc = "done"
           /\ ~requests[r2].aborted
           /\ fetches[requests[r2].fetch].state # "rejected")
          => requests[r2].result = Ok(VectorTile(requests[r2].url))
\* the request that started the fetch was aborted and ended with the empty
\* tile; the request for another URL that found the fetch in flight ended
\* with its vector tile, and one fetch was made
C24_Witness ==
    /\ requests[1].url = "u1" /\ requests[2].url = "u2"
    /\ requests[1].pending = {} /\ requests[1].fetch = 1
    /\ requests[2].pending = {1} /\ requests[2].fetch = 1
    /\ requests[1].aborted /\ requests[1].result = Ok(emptyVectorTileBytes)
    /\ ~requests[2].aborted /\ requests[2].result = Ok(VectorTile("u2"))
    /\ Len(fetches) = 1 /\ fetches[1].state = "resolved"

\* the mesh features that the load of a request needs were there: found in
\* the cache, or fetched
MeshAvailable(r) ==
    \/ requests[r].held = "cached"
    \/ requests[r].fetch # 0 /\ fetches[requests[r].fetch].state = "resolved"
\* C29: a request that joined the load in flight for its request URL, and
\* whose mesh features are there, ends with the vector tile of the URL: it
\* does not reject and does not get the empty tile, whether or not the
\* request that started the load is aborted.
C29_JoinUnaffected ==
    \A r \in Requests :
       (/\ requests[r].role = "joiner"
        /\ requests[r].pc = "done"
        /\ MeshAvailable(requests[r].joined))
       => requests[r].result = Ok(VectorTile(requests[r].url))
\* the second request joined the load of the first, the first was aborted
\* while the mesh tile was fetched, the fetch succeeded, and the second
\* request, not aborted, got the empty tile
C29_Witness ==
    /\ requests[2].role = "joiner" /\ requests[2].joined = 1
    /\ requests[1].aborted /\ ~requests[2].aborted
    /\ requests[2].result = Ok(emptyVectorTileBytes)
    /\ fetches[1].state = "resolved"
    /\ requests[1].fetch = 1
=============================================================================
